---- MODULE Spec2Model ----
(***************************************************************************)
(* Orchestration core of the fraud-detection demo: the agentic loop of the *)
(* two agent executors (FraudDetectionAgent, ClaimsInvestigationAgent),    *)
(* the delegation client (callInvestigationAgentWithEvents), the relay     *)
(* (sendToDetectionAgent + the chat route) and the Chat client.            *)
(*                                                                         *)
(* JavaScript runs each handler to its next await without interruption, so *)
(* one action is one such run: everything a continuation does until it     *)
(* awaits again.  Processes (the two agent servers, the API server, the    *)
(* browser) interleave freely at those points.                             *)
(***************************************************************************)
EXTENDS Integers, Sequences, FiniteSets, TLC

\* ---------------------------------------------------------------- bounds
\* Largest number of tool calls in one Reasoner reply.
MaxBatch == 2
\* Tool calls a Reasoner that answers freely requests in one task.  (A
\* Reasoner that asks for one plain tool call in every reply is not bounded.)
MaxCalls == 2
\* Rounds in which a delegated peer's Reasoner may still request a tool.
MaxPeerRounds == 1

\* ------------------------------------------------------ program constants
MAX_ITERATIONS == 10

\* ------------------------------------------------------------------ texts
\* A text is a record: [s |-> "..."] a literal, [p |-> prefix, t |-> text] a
\* template literal `${prefix}${text}`, [json |-> data] the output of
\* JSON.stringify(data).
Str(s) == [s |-> s]
Cat(prefix, t) == [p |-> prefix, t |-> t]
JSONstringify(data) == [json |-> data]

\* Literals whose first character is "{" although they are no JSON.
BraceStrs == {"{draft"}

\* JavaScript truthiness of a string: the empty string is falsy.
Truthy(t) == t # Str("")

\* text.startsWith('{')
StartsWithBrace(t) ==
    \/ "json" \in DOMAIN t
    \/ "s" \in DOMAIN t /\ t.s \in BraceStrs

\* JSON.parse(text): the parsed object, or failure for text that is no JSON.
ParsesAsJSON(t) == "json" \in DOMAIN t
JSONparse(t) == t.json

\* The fields of r among fs (an object literal whose undefined members
\* JSON.stringify drops).
Pick(r, fs) == [f \in (DOMAIN r \cap fs) |-> r[f]]

Last(s) == s[Len(s)]

\* ----------------------------------------------------------------- agents
VendorOf(agent) == IF agent = "investigation" THEN "google" ELSE "anthropic"

\* ------------------------------------------------------ structured events
AgentActiveData(agent, status) ==
    [type |-> "agent_active", agent |-> agent, vendor |-> VendorOf(agent),
     status |-> status]

ToolStartData(agent, tool) ==
    [type |-> "mcp_tool", agent |-> agent, tool |-> tool, status |-> "start"]

ToolEndData(agent, tool, duration, success) ==
    [type |-> "mcp_tool", agent |-> agent, tool |-> tool, status |-> "end",
     duration |-> duration, success |-> success]

DelegationData ==
    [type |-> "a2a_delegation", from |-> "detection", to |-> "investigation"]

ThinkingData(agent, text) ==
    [type |-> "thinking", agent |-> agent, text |-> text]

\* ------------------------------------------------------- event-bus updates
\* `call` is a ghost: the tool call on whose behalf the update was published
\* (0: the executor itself).
StructuredUpdate(data, call) ==
    [kind |-> "status-update", state |-> "working", final |-> FALSE,
     text |-> JSONstringify(data), call |-> call]

InitialTask ==
    [kind |-> "task", state |-> "submitted", final |-> FALSE, call |-> 0]

WorkingText(role) ==
    IF role = "detection" THEN Str("Analyzing for fraud patterns...")
    ELSE Str("Initiating investigation with Gemini AI...")

WorkingUpdate(role) ==
    [kind |-> "status-update", state |-> "working", final |-> FALSE,
     text |-> WorkingText(role), call |-> 0]

FinalUpdate(text) ==
    [kind |-> "status-update", state |-> "completed", final |-> TRUE,
     text |-> text, call |-> 0]

\* ---------------------------------------------------------------- Reasoner
\* A reply is [text, thinking, toolCalls]: toolCalls is the sequence of the
\* requested tools' names, << >> when the backend requested none (the clients
\* return toolCalls: undefined then); thinking is Str("") when absent (always,
\* for Claude).
DelegateTool == "delegate_investigation"
PlainTool(role) ==
    IF role = "detection" THEN "find_anomalies" ELSE "explain_risk_score"

ToolsOf(role) ==
    IF role = "detection" THEN {PlainTool(role), DelegateTool}
    ELSE {PlainTool(role)}

Batches(role, most) ==
    UNION {[1..n -> ToolsOf(role)] : n \in 1..most}

ThinkingTexts(role) ==
    IF role = "detection" THEN {Str("")} ELSE {Str(""), Str("plan")}

\* Narrative texts.  A Reasoner's text is never itself the serialization of a
\* structured event; it may well begin with "{".
FinalTexts == {Str(""), Str("Findings"), Str("{draft")}
StepTexts == {Str(""), Str("Next I will check")}

FinalReplies(role) ==
    {[text |-> t, thinking |-> Str(""), toolCalls |-> << >>] : t \in FinalTexts}

ToolReplies(role, most) ==
    {[text |-> t, thinking |-> th, toolCalls |-> b] :
        t \in StepTexts, th \in ThinkingTexts(role), b \in Batches(role, most)}

\* The replies of a delegated peer's Reasoner.
PeerFinalReplies ==
    {[text |-> t, thinking |-> Str(""), toolCalls |-> << >>] :
        t \in {Str("Report"), Str("{draft")}}
PeerToolReplies ==
    {[text |-> Str(""), thinking |-> Str("plan"),
      toolCalls |-> <<PlainTool("investigation")>>]}

LeanReplies(role) ==
    {[text |-> Str(""), thinking |-> Str(""),
      toolCalls |-> <<PlainTool(role)>>]}

ReasonerErrors == {"Connection error."}

\* --------------------------------------------------------- tool invocation
\* What client.callTool of the MCP SDK does: resolve with a result, resolve
\* with an isError result, or reject.
McpOutcomes == {"ok", "isError", "throw"}

Durations == {120}

callTool(outcome) ==
    CASE outcome = "ok" -> [success |-> TRUE, data |-> "rows"]
      [] outcome = "isError" -> [success |-> FALSE, error |-> "Provider not found"]
      [] outcome = "throw" -> [success |-> FALSE, error |-> "connect ECONNREFUSED"]

\* A completion of `await executeToolCall(...)`: [thrown |-> FALSE, value]
\* when it resolved, [thrown |-> TRUE, message] when it rejected.
Resolved(v) == [thrown |-> FALSE, value |-> v]

executeToolCall(outcome) ==
    LET result == callTool(outcome)
    IN  IF result.success THEN Resolved(result.data)
        ELSE Resolved([error |-> result.error])

executeDelegation(investigationResult) ==
    Resolved([investigation_report |-> investigationResult])

\* ---------------------------------------------------------------- executor
\* The `thinking` publication after the first reply.
InitialThinking(role, r) ==
    IF role = "detection"
    THEN IF Truthy(r.text) /\ r.toolCalls # << >>
         THEN <<ThinkingData(role, r.text)>> ELSE << >>
    ELSE LET thinkingContent == IF Truthy(r.thinking) THEN r.thinking ELSE r.text
         IN  IF Truthy(thinkingContent)
             THEN <<ThinkingData(role, thinkingContent)>> ELSE << >>

\* The `thinking` publication after a reply to tool results.
LoopThinking(role, r) ==
    IF role = "detection"
    THEN IF Truthy(r.text) /\ r.toolCalls # << >>
         THEN <<ThinkingData(role, r.text)>> ELSE << >>
    ELSE LET intermediateThinking ==
                 IF Truthy(r.thinking) THEN r.thinking ELSE r.text
         IN  IF Truthy(intermediateThinking) /\ r.toolCalls # << >>
             THEN <<ThinkingData(role, intermediateThinking)>> ELSE << >>

\* A loop without the iteration bound; C4 does not hold of it.
LoopContinuesUnbounded(r, iterations) ==
    r.toolCalls # << >>

\* The while condition of the agentic loop.
LoopContinues(r, iterations) ==
    r.toolCalls # << >> /\ iterations < MAX_ITERATIONS

\* responseText after the loop.
FinalResponseText(role, r, iterations) ==
    IF role = "detection"
    THEN IF Truthy(r.text) THEN r.text
         ELSE Str("Analysis complete. No additional details available.")
    ELSE IF iterations >= MAX_ITERATIONS
         THEN Cat("Investigation reached maximum iterations (10). Partial results:\n\n",
                  r.text)
         ELSE IF Truthy(r.text) THEN r.text
              ELSE Str("Investigation complete. No additional findings to report.")

\* responseText in the catch block.
ErrorResponseText(role, message) ==
    IF role = "detection" THEN Cat("Error: ", Str(message))
    ELSE Cat("Investigation error: ", Str(message))

\* An executor that publishes the final update before agent_active
\* completed; C2 does not hold of it.
CompletionUpdatesFinalFirst(role, responseText) ==
    <<FinalUpdate(responseText),
      StructuredUpdate(AgentActiveData(role, "completed"), 0)>>

\* Steps 4-5 (5-6) of execute: agent_active completed, then the final update.
CompletionUpdates(role, responseText) ==
    <<StructuredUpdate(AgentActiveData(role, "completed"), 0),
      FinalUpdate(responseText)>>

\* A callback that publishes no start event; C5 does not hold of it.
CallStartUpdatesNoStart(role, tool, call) ==
    IF role = "detection" /\ tool = DelegateTool
    THEN <<StructuredUpdate(DelegationData, call),
           StructuredUpdate(AgentActiveData("investigation", "working"), call)>>
    ELSE << >>

\* A callback that publishes the delegation event after agent_active working
\* of the delegate; C6 does not hold of it.
CallStartUpdatesDelegationLate(role, tool, call) ==
    <<StructuredUpdate(ToolStartData(role, tool), call)>>
    \o (IF role = "detection" /\ tool = DelegateTool
        THEN <<StructuredUpdate(AgentActiveData("investigation", "working"), call),
               StructuredUpdate(DelegationData, call)>>
        ELSE << >>)

\* A callback that publishes no delegation event; C7 does not hold of it.
CallStartUpdatesNoDelegation(role, tool, call) ==
    <<StructuredUpdate(ToolStartData(role, tool), call)>>
    \o (IF role = "detection" /\ tool = DelegateTool
        THEN <<StructuredUpdate(AgentActiveData("investigation", "working"), call)>>
        ELSE << >>)

\* What one map callback publishes before its first await.
CallStartUpdates(role, tool, call) ==
    <<StructuredUpdate(ToolStartData(role, tool), call)>>
    \o (IF role = "detection" /\ tool = DelegateTool
        THEN <<StructuredUpdate(DelegationData, call),
               StructuredUpdate(AgentActiveData("investigation", "working"), call)>>
        ELSE << >>)

\* What one map callback publishes when executeToolCall completed.
CallEndUpdate(role, tool, call, duration, completion) ==
    StructuredUpdate(ToolEndData(role, tool, duration, ~completion.thrown), call)

\* The entry the callback returns for sendToolResults.
CallResult(role, tool, call, completion) ==
    LET result == IF completion.thrown THEN [error |-> completion.message]
                  ELSE completion.value
    IN  IF role = "detection" THEN [toolUseId |-> call, result |-> result]
        ELSE [name |-> tool, response |-> result]

\* ------------------------------------------------------- delegation client
DelegationErrors == {"fetch failed"}

\* A loop that forwards every structured event as received; C22 does not
\* hold of it.
ForwardedDataAsIs(update) ==
    IF update.kind = "status-update" /\ ParsesAsJSON(update.text)
       /\ "type" \in DOMAIN JSONparse(update.text)
    THEN <<JSONparse(update.text)>>
    ELSE << >>

\* What the stream loop publishes for one update of the peer's stream.
ForwardedData(update) ==
    IF update.kind = "status-update" /\ ParsesAsJSON(update.text)
       /\ "type" \in DOMAIN JSONparse(update.text)
    THEN LET parsed == JSONparse(update.text)
         IN  IF parsed.type = "mcp_tool"
             THEN <<[agent |-> "investigation"] @@ parsed>>
             ELSE <<parsed>>
    ELSE << >>

\* responseText after one update of the peer's stream.
ResponseTextAfter(update, responseText) ==
    IF update.kind = "status-update" /\ update.final
       /\ Truthy(update.text) /\ ~StartsWithBrace(update.text)
    THEN update.text
    ELSE responseText

\* The value returned when the stream ended.
DelegationResult(responseText) ==
    IF Truthy(responseText) THEN responseText
    ELSE Str("Investigation complete but no details available")

\* A catch block that returns the bare message; C10 does not hold of it.
DelegationErrorResultBare(errorMessage) ==
    Str(errorMessage)

\* The value returned from the catch block.
DelegationErrorResult(errorMessage) ==
    Cat("Error delegating to Investigation Agent: ", Str(errorMessage))

\* ------------------------------------------------------------------- state
Procs == 0..MaxBatch          \* 0: the executor that received the request
Peers == 1..MaxBatch          \* i: the peer serving the delegation of slot i

VARIABLES
    topRole,        \* role of executor 0: "detection" or "investigation"
    existingTask,   \* requestContext.task of executor 0 is set
    ex,             \* per executor: the locals of execute
    bus,            \* per executor: what it published on its event bus
    deleg,          \* per slot: the locals of callInvestigationAgentWithEvents
    relay,          \* the locals of sendToDetectionAgent
    out,            \* the events sendToDetectionAgent yielded
    outCall,        \* ghost: per yielded event, the tool call it belongs to
    wire,           \* the frames the chat route wrote to the response
    chat,           \* the state of the Chat component and of its handleSend
    mcpClient,      \* the MCP client module of an agent and what it returned
    auditLogs,      \* the audit log of the tool server and what it answered
    cancelLog       \* per executor: the log lines of cancelTask

vars == <<topRole, existingTask, ex, bus, deleg, relay, out, outCall, wire, chat,
          mcpClient, auditLogs, cancelLog>>

Role(p) == IF p = 0 THEN topRole ELSE "investigation"

NoReply == [text |-> Str(""), thinking |-> Str(""), toolCalls |-> << >>]

\* pc: "idle" not called, "send" awaiting sendMessage, "batch" awaiting
\* Promise.all, "results" awaiting sendToolResults, "done" returned.
\* rt counts the Reasoner round trips started, ncall the tool calls started,
\* failed holds the message of the error caught by the outer catch.
ExInit ==
    [pc |-> "idle", iterations |-> 0, resp |-> NoReply, slots |-> << >>,
     fed |-> << >>, rt |-> 0, ncall |-> 0, failed |-> ""]

DelegOff == [pc |-> "off", pos |-> 0, responseText |-> Str(""),
             ret |-> Str(""), err |-> ""]

RECURSIVE Flatten(_)
Flatten(ss) == IF ss = << >> THEN << >> ELSE Head(ss) \o Flatten(Tail(ss))

Publish(p, updates) == bus' = [bus EXCEPT ![p] = @ \o updates]

IsDelegation(p, tool) == Role(p) = "detection" /\ tool = DelegateTool

Min(a, b) == IF a < b THEN a ELSE b

\* Slot i holds the only delegation of the batch.  Only then does the peer's
\* Reasoner request a tool, and only then does the peer's stream break off.
Solo(i) ==
    \A j \in 1..Len(ex[0].slots) :
        j # i => ~IsDelegation(0, ex[0].slots[j].name)

\* Replies the Reasoner of executor p may give now.  The Reasoner of executor
\* 0 either answers freely, within MaxCalls tool calls, or is the one that
\* asks for one plain tool call in every reply, until it stops.
RepliesAt(p) ==
    IF p = 0
    THEN FinalReplies(Role(p))
         \cup (IF ex[p].resp \notin LeanReplies(Role(p))
               THEN ToolReplies(Role(p), Min(MaxBatch, MaxCalls - ex[p].ncall))
               ELSE {})
         \cup (IF ex[p].iterations = 0 \/ ex[p].resp \in LeanReplies(Role(p))
               THEN LeanReplies(Role(p)) ELSE {})
    ELSE PeerFinalReplies
         \cup (IF ex[p].iterations < MaxPeerRounds /\ Solo(p)
               THEN PeerToolReplies ELSE {})

\* Outcomes of a plain tool call of executor p now.
OutcomesAt(p) ==
    IF p = 0 /\ ex[p].resp \notin LeanReplies(Role(p)) THEN McpOutcomes
    ELSE {"ok"}

\* ------------------------------------------------------------------- relay
\* The events sendToDetectionAgent yields for one update of the stream.
YieldsFor(update) ==
    IF update.kind # "status-update" THEN << >>
    ELSE
      (IF ParsesAsJSON(update.text) /\ "type" \in DOMAIN JSONparse(update.text)
       THEN LET structured == JSONparse(update.text)
            IN  CASE structured.type = "mcp_tool" ->
                       <<[type |-> "mcp_tool",
                          agent |-> IF "agent" \in DOMAIN structured
                                    THEN structured.agent ELSE "detection"]
                         @@ Pick(structured, {"tool", "status", "duration", "success"})>>
                  [] structured.type = "a2a_delegation" ->
                       <<[type |-> "a2a_delegation"] @@ Pick(structured, {"from", "to"}),
                         [type |-> "agent_active", status |-> "working",
                          vendor |-> IF "to" \in DOMAIN structured
                                        /\ structured.to = "investigation"
                                     THEN "google" ELSE "anthropic"]
                         @@ (IF "to" \in DOMAIN structured
                             THEN [agent |-> structured.to] ELSE Pick(structured, {}))>>
                  [] structured.type = "agent_active" ->
                       <<[type |-> "agent_active"]
                         @@ Pick(structured, {"agent", "vendor", "status"})>>
                  [] structured.type = "thinking" ->
                       <<[type |-> "thinking"] @@ Pick(structured, {"agent", "text"})>>
                  [] OTHER -> << >>
       ELSE << >>)
      \o (IF update.final
          THEN <<[type |-> "agent_active", agent |-> "detection",
                  vendor |-> "anthropic", status |-> "completed"]>>
          ELSE << >>)

\* finalText after one update of the stream.
FinalTextAfter(update, finalText) ==
    IF update.kind = "status-update"
       /\ ~(ParsesAsJSON(update.text) /\ "type" \in DOMAIN JSONparse(update.text))
       /\ Truthy(update.text) /\ ~StartsWithBrace(update.text)
       /\ update.final
    THEN update.text
    ELSE finalText

\* taskId after one update of the stream ("" is undefined).
TaskIdAfter(update, taskId) ==
    IF update.kind = "task" THEN "task-1" ELSE taskId

\* A relay that yields done before the final text; C1 does not hold of it.
ClosingYieldsDoneFirst(finalText, taskId) ==
    <<[type |-> "done"] @@ (IF taskId # "" THEN [taskId |-> taskId]
                            ELSE Pick([type |-> "done"], {}))>>
    \o (IF Truthy(finalText) THEN <<[type |-> "text", text |-> finalText]>>
        ELSE << >>)

\* The events yielded after the stream ended.
ClosingYields(finalText, taskId) ==
    (IF Truthy(finalText) THEN <<[type |-> "text", text |-> finalText]>> ELSE << >>)
    \o <<[type |-> "done"] @@ (IF taskId # "" THEN [taskId |-> taskId]
                               ELSE Pick([type |-> "done"], {}))>>

\* The event yielded from the catch block.
ErrorYield(errorMessage) == [type |-> "error", message |-> errorMessage]

RelayErrors == {"socket hang up"}

\* A route that serializes the whole event, its type included; C38 does
\* not hold of it.
FrameForWhole(event) == [event |-> event.type, data |-> event]

\* The frame the chat route writes for one yielded event.
FrameFor(event) ==
    [event |-> event.type,
     data |->
       CASE event.type = "agent_active" -> Pick(event, {"agent", "vendor", "status"})
         [] event.type = "mcp_tool" ->
              Pick(event, {"agent", "tool", "status", "duration", "success"})
         [] event.type = "a2a_delegation" -> Pick(event, {"from", "to"})
         [] event.type = "thinking" -> Pick(event, {"agent", "text"})
         [] event.type = "text" -> Pick(event, {"text"})
         [] event.type = "done" -> Pick(event, {"taskId"})
         [] event.type = "error" -> Pick(event, {"message"})]

\* A route that writes the frames of the events it received last first; C13
\* does not hold of it.
FramesForLastFirst(events) ==
    [k \in 1..Len(events) |-> FrameFor(events[Len(events) + 1 - k])]

FramesFor(events) == [k \in 1..Len(events) |-> FrameFor(events[k])]

\* One turn of the route's for-await loop per yielded event: yield, write.
\* res.write on a connection the client has closed writes nothing.
Yield(events, call) ==
    /\ out' = out \o events
    /\ outCall' = outCall \o [k \in 1..Len(events) |-> call]
    /\ wire' = IF relay.socket = "open" THEN wire \o FramesFor(events) ELSE wire

\* socket: the connection of the response, "open" or "closed" by the client.
RelayInit == [pc |-> "init", pos |-> 0, finalText |-> Str(""), taskId |-> "",
              aborted |-> FALSE, socket |-> "open"]

\* ------------------------------------------------------------- Chat client
AgentIds == {"detection", "investigation"}

DEFAULT_AGENTS == [a \in AgentIds |-> [vendor |-> VendorOf(a), status |-> "idle"]]

\* pc: "idle" before handleSend, "fetching" awaiting fetch, "reading" in the
\* read loop, "finished" after the finally block.  pos counts the bytes read,
\* buffer holds the partial trailing line, currentContent the text fragments
\* appended so far.
ChatInit ==
    [pc |-> "idle", messages |-> << >>, toolCalls |-> << >>,
     agents |-> DEFAULT_AGENTS, delegations |-> << >>, thoughts |-> << >>,
     isLoading |-> FALSE, streamingContent |-> << >>, currentContent |-> << >>,
     pos |-> 0, buffer |-> << >>]

\* `if (currentContent)`: the concatenation is not the empty string.
TruthyContent(content) == \E k \in 1..Len(content) : Truthy(content[k])

\* A chain that tests the thinking rule before the agent_active rule; C15
\* does not hold of it.
ClassifyThinkingFirst(parsed) ==
    LET has(f) == f \in DOMAIN parsed
    IN  IF has("agent") /\ has("text") /\ ~has("tool") THEN "thinking"
        ELSE IF has("agent") /\ has("vendor") /\ has("status") /\ ~has("tool")
        THEN "agent_active"
        ELSE IF has("tool") /\ has("status") THEN "mcp_tool"
        ELSE IF has("from") /\ has("to") THEN "a2a_delegation"
        ELSE IF has("text") /\ ~has("agent") THEN "text"
        ELSE IF has("taskId") \/ DOMAIN parsed = {} THEN "done"
        ELSE IF has("message") THEN "error"
        ELSE "none"

\* The branch of the read loop that handles the parsed payload.
Classify(parsed) ==
    LET has(f) == f \in DOMAIN parsed
    IN  IF has("agent") /\ has("vendor") /\ has("status") /\ ~has("tool")
        THEN "agent_active"
        ELSE IF has("tool") /\ has("status") THEN "mcp_tool"
        ELSE IF has("from") /\ has("to") THEN "a2a_delegation"
        ELSE IF has("agent") /\ has("text") /\ ~has("tool") THEN "thinking"
        ELSE IF has("text") /\ ~has("agent") THEN "text"
        ELSE IF has("taskId") \/ DOMAIN parsed = {} THEN "done"
        ELSE IF has("message") THEN "error"
        ELSE "none"

\* getActiveDelegation: the last delegation while an agent is working, as a
\* sequence of at most one element.
ActiveDelegation(c) ==
    IF c.delegations = << >> THEN << >>
    ELSE IF c.agents["investigation"].status # "working"
            /\ c.agents["detection"].status # "working" THEN << >>
    ELSE <<Last(c.delegations)>>

\* A done branch that also empties the tool-call and thinking lists; C16
\* does not hold of it.
FinalizedAndCleared(c) ==
    [c EXCEPT !.messages =
                  Append(@, [role |-> "assistant", content |-> c.currentContent]),
              !.toolCalls = << >>, !.thoughts = << >>]

\* A done branch that keeps the last fragment only; C18 does not hold of it.
FinalizedLastFragment(c) ==
    [c EXCEPT !.messages =
        Append(@, [role |-> "assistant",
                   content |-> <<Last(c.currentContent)>>])]

\* The done branch when currentContent is not empty.
Finalized(c) ==
    [c EXCEPT !.messages =
        Append(@, [role |-> "assistant", content |-> c.currentContent])]

\* The state after the read loop handled one parsed payload.
Decoded(c, parsed) ==
    LET kind == Classify(parsed)
        agentId == IF "agent" \in DOMAIN parsed THEN parsed.agent ELSE "detection"
    IN  CASE kind = "agent_active" ->
               [c EXCEPT !.agents[parsed.agent].status =
                   IF parsed.status = "working" THEN "working"
                   ELSE IF parsed.status = "completed" THEN "completed"
                   ELSE "idle"]
          [] kind = "mcp_tool" /\ parsed.status = "start" ->
               [c EXCEPT !.toolCalls =
                   Append(@, [name |-> parsed.tool, agent |-> agentId,
                              status |-> "running"])]
          [] kind = "mcp_tool" /\ parsed.status = "end" ->
               [c EXCEPT !.toolCalls =
                   [k \in 1..Len(@) |->
                      IF @[k].name = parsed.tool /\ @[k].status = "running"
                         /\ @[k].agent = agentId
                      THEN [name |-> @[k].name, agent |-> @[k].agent,
                            status |-> IF "success" \in DOMAIN parsed
                                          /\ parsed.success
                                       THEN "success" ELSE "error"]
                           @@ Pick(parsed, {"duration"})
                      ELSE @[k]]]
          [] kind = "a2a_delegation" ->
               [c EXCEPT !.delegations =
                   Append(@, [from |-> parsed.from, to |-> parsed.to])]
          [] kind = "thinking" ->
               [c EXCEPT !.thoughts =
                   Append(@, [agent |-> parsed.agent, text |-> parsed.text])]
          [] kind = "text" ->
               [c EXCEPT !.currentContent = Append(@, parsed.text),
                         !.streamingContent = Append(c.currentContent, parsed.text)]
          [] kind = "done" /\ TruthyContent(c.currentContent) -> Finalized(c)
          [] OTHER -> c

\* ------------------------------------------------------ bytes of a response
\* The response body is a sequence of bytes.  A byte is the newline or a
\* piece of a line; a line is sent as two pieces, so that a chunk may end
\* inside a line.
NL == [nl |-> TRUE]

LineBytes(line) == <<[line |-> line, piece |-> 1], [line |-> line, piece |-> 2]>>

\* The text after "data: ": JSON.stringify(data) in a frame of the chat
\* route; a frame from elsewhere carries its text as `raw`.
DataText(frame) ==
    IF "raw" \in DOMAIN frame THEN [raw |-> frame.raw]
    ELSE JSONstringify(frame.data)

\* `event: ${eventType}\ndata: ${JSON.stringify(data)}\n\n`
FrameBytes(frame) ==
    LineBytes([prefix |-> "event: ", text |-> Str(frame.event)]) \o <<NL>>
    \o LineBytes([prefix |-> "data: ", text |-> DataText(frame)])
    \o <<NL, NL>>

Bytes(frames) == Flatten([k \in 1..Len(frames) |-> FrameBytes(frames[k])])

\* text.split("\n")
RECURSIVE Split(_)
Split(text) ==
    IF \E k \in 1..Len(text) : text[k] = NL
    THEN LET k == CHOOSE k \in 1..Len(text) :
                    text[k] = NL /\ \A j \in 1..(k - 1) : text[j] # NL
         IN  <<SubSeq(text, 1, k - 1)>> \o Split(SubSeq(text, k + 1, Len(text)))
    ELSE <<text>>

\* A partial trailing line thrown away instead of kept; C14 does not hold of
\* it.
RemainderDropped(lines) == << >>

\* `buffer = lines.pop() || ""`
Remainder(lines) == Last(lines)

\* Texts that are not the JSON text of an object: no JSON at all, a number,
\* a string, null, the empty array, an array of one element.
RawTexts == {"not json", "5", "\"abc\"", "null", "[]", "[1]"}

\* What the try block does with the text of a data line.  JSON.parse throws
\* on text that is no JSON; the first `in` test throws on a value that is no
\* object; an array is an object without the named fields, and Object.keys
\* gives its indices.  Whatever is thrown is caught and ignored.
HandleData(c, text) ==
    IF ParsesAsJSON(text) THEN Decoded(c, JSONparse(text))
    ELSE IF "raw" \notin DOMAIN text THEN c
    ELSE IF text.raw = "[]" THEN Decoded(c, Pick(c, {}))
    ELSE IF text.raw = "[1]" THEN Decoded(c, [i \in {"0"} |-> 1])
    ELSE c

\* The body of the loop over the complete lines, for one line.
HandleLine(c, line) ==
    IF line # << >> /\ line[1].piece = 1 /\ line[1].line.prefix = "data: "
    THEN IF line = LineBytes(line[1].line)
         THEN HandleData(c, line[1].line.text)
         ELSE c
    ELSE c

RECURSIVE HandleLines(_, _)
HandleLines(c, lines) ==
    IF lines = << >> THEN c
    ELSE HandleLines(HandleLine(c, Head(lines)), Tail(lines))

\* One turn of the read loop after reader.read() resolved with a chunk.
DecodeChunk(c, value) ==
    LET lines == Split(c.buffer \o value)
    IN  HandleLines([c EXCEPT !.buffer = Remainder(lines)],
                    SubSeq(lines, 1, Len(lines) - 1))

\* A finally block that leaves the agent statuses; C19 does not hold of it.
FinallyKeepsAgents(c) ==
    [c EXCEPT !.pc = "finished", !.isLoading = FALSE, !.streamingContent = << >>]

\* The finally block of handleSend.
Finally(c) ==
    [c EXCEPT !.pc = "finished", !.isLoading = FALSE, !.streamingContent = << >>,
              !.agents = [a \in AgentIds |-> [@[a] EXCEPT !.status = "idle"]]]

\* The catch block of handleSend, then the finally block.
CatchFinally(c, message) ==
    Finally([c EXCEPT !.messages =
               Append(@, [role |-> "assistant",
                          content |-> <<Cat("Error: ", Str(message))>>])])

\* ------------------------------------------------------------- MCP client
\* client: mcpClient is set; ret: what callTool and listTools returned, in
\* order.
McpInit == [client |-> FALSE, ret |-> << >>]

Thrown(message) == [thrown |-> TRUE, message |-> message]

\* JSON values: an object is a record of its members, anything else (null, a
\* number) is [prim |-> its text].  A string is Str(s); a text that is the
\* serialization of a JSON value is [json |-> value].
IsObject(v) == "prim" \notin DOMAIN v

\* errorMessage.includes('connect') || errorMessage.includes('ECONNREFUSED')
ConnectMessages == {"connect ECONNREFUSED 127.0.0.1:3001"}
McpMessages == ConnectMessages \cup {"Request timed out"}

\* Reading a property of undefined.
TypeErrorMessage == "Cannot read properties of undefined (reading 'find')"

\* The texts the tool server writes for a failed call, and texts that are
\* no such serialization.  The members error and message are strings.
ErrorTexts ==
    {[json |-> [error |-> Str("Unknown tool: find_anomalies")]],
     [json |-> [error |-> Str("Tool execution failed"), message |-> Str("boom")]],
     [json |-> [error |-> Str(""), message |-> Str("boom")]],
     [json |-> [message |-> Str("boom")]],
     [json |-> [code |-> Str("E42")]],
     [json |-> [prim |-> "null"]],
     [json |-> [prim |-> "5"]],
     Str("Service unavailable"),
     Str("")}

DataTexts ==
    {[json |-> [anomaliesFound |-> [prim |-> "3"]]],
     [json |-> [prim |-> "null"]],
     Str("3 anomalies")}

TextItem(text) == [type |-> "text", text |-> text]

\* What `await client.callTool(...)` does: it rejects, or it resolves with a
\* result; a result carries isError for a failed call, and content, a list
\* of items, unless it is malformed.
CallResponses ==
    {[rejects |-> m] : m \in McpMessages}
    \cup {[result |-> [isError |-> TRUE, content |-> <<TextItem(t)>>]] :
            t \in ErrorTexts}
    \cup {[result |-> [isError |-> TRUE, content |-> << >>]],
          [result |-> [isError |-> TRUE, content |-> <<[type |-> "image"]>>]],
          [result |-> [isError |-> TRUE]]}
    \cup {[result |-> [content |-> <<TextItem(t)>>]] : t \in DataTexts}
    \cup {[result |-> [isError |-> FALSE,
                       content |-> <<[type |-> "image"], TextItem(t)>>]] :
            t \in DataTexts}
    \cup {[result |-> [content |-> << >>]],
          [result |-> [content |-> <<[type |-> "text"]>>]],
          [result |-> [content |-> <<[type |-> "image"]>>]],
          [result |-> Pick([isError |-> FALSE], {})]}

\* What getMcpClient does when mcpClient is null: connect resolves or rejects.
Connections(client) ==
    IF client THEN {"cached"} ELSE {"connected"} \cup ConnectMessages

\* content.find((c) => c.type === 'text'): the items from the first text
\* item on, << >> if there is none.
RECURSIVE FindText(_)
FindText(content) ==
    IF content = << >> THEN << >>
    ELSE IF Head(content).type = "text" THEN content
    ELSE FindText(Tail(content))

\* errorData.error || errorData.message || errorText, errorText when
\* JSON.parse or the member access throws.
ErrorOf(errorText) ==
    IF ParsesAsJSON(errorText) /\ IsObject(JSONparse(errorText))
    THEN LET errorData == JSONparse(errorText)
             truthy(f) == f \in DOMAIN errorData /\ Truthy(errorData[f])
         IN  IF truthy("error") THEN errorData.error
             ELSE IF truthy("message") THEN errorData.message
             ELSE errorText
    ELSE errorText

\* The try block of callTool.
CallToolTry(connection, response) ==
    IF connection \in ConnectMessages THEN Thrown(connection)
    ELSE IF "rejects" \in DOMAIN response THEN Thrown(response.rejects)
    ELSE LET result == response.result
         IN  IF "content" \notin DOMAIN result THEN Thrown(TypeErrorMessage)
             ELSE LET found == FindText(result.content)
                      hasText == found # << >> /\ "text" \in DOMAIN Head(found)
                  IN  IF "isError" \in DOMAIN result /\ result.isError
                      THEN LET errorText == IF hasText THEN Head(found).text
                                            ELSE Str("Unknown error")
                           IN  Resolved([success |-> FALSE,
                                         error |-> ErrorOf(errorText)])
                      ELSE IF hasText
                      THEN LET text == Head(found).text
                           IN  Resolved([success |-> TRUE,
                                         data |-> IF ParsesAsJSON(text)
                                                  THEN JSONparse(text) ELSE text])
                      ELSE Resolved([success |-> TRUE])

\* A callTool without the catch block; C24 does not hold of it.
CallToolUncaught(connection, response) ==
    CallToolTry(connection, response)

\* callTool: the try block, and the catch block around it.
CallToolReturns(connection, response) ==
    LET try == CallToolTry(connection, response)
    IN  IF try.thrown THEN Resolved([success |-> FALSE, error |-> Str(try.message)])
        ELSE try

\* mcpClient after callTool: set by getMcpClient, reset by the catch block on
\* a connection error.
ClientAfterCall(client, connection, response) ==
    LET try == CallToolTry(connection, response)
    IN  IF connection \in ConnectMessages THEN FALSE
        ELSE IF try.thrown /\ try.message \in ConnectMessages THEN FALSE
        ELSE TRUE

\* What `await client.listTools()` does.
ToolLists ==
    {<< >>,
     <<[name |-> "find_anomalies", description |-> Str("Finds anomalies")]>>,
     <<[name |-> "find_anomalies", description |-> Str("Finds anomalies")],
       [name |-> "get_audit_log"]>>,
     <<[name |-> "explain_risk_score", description |-> Str("")]>>}

ListResponses ==
    {[rejects |-> m] : m \in McpMessages}
    \cup {[result |-> [tools |-> l]] : l \in ToolLists}
    \cup {[result |-> Pick([tools |-> << >>], {})]}

\* The try block of listTools.
ListToolsTry(connection, response) ==
    IF connection \in ConnectMessages THEN Thrown(connection)
    ELSE IF "rejects" \in DOMAIN response THEN Thrown(response.rejects)
    ELSE IF "tools" \notin DOMAIN response.result THEN Thrown(TypeErrorMessage)
    ELSE LET tools == response.result.tools
         IN  Resolved([k \in 1..Len(tools) |->
                        [name |-> tools[k].name,
                         description |->
                            IF "description" \in DOMAIN tools[k]
                               /\ Truthy(tools[k].description)
                            THEN tools[k].description ELSE Str("")]])

\* listTools: the try block, and the catch block around it.
ListToolsReturns(connection, response) ==
    LET try == ListToolsTry(connection, response)
    IN  IF try.thrown THEN Resolved(<< >>) ELSE try

\* ------------------------------------------------------------- tool server
\* logs: auditLogs, newest first; logCounter; answers: what the server
\* answered to the calls it received, in order.
AuditInit == [logs |-> << >>, logCounter |-> 0, answers |-> << >>]

MAX_LOG_ENTRIES == 1000

\* The tools registered, a name that is none of them, arguments the schema
\* of a tool accepts and arguments it rejects, and what a handler does.
ServerTools == {"find_anomalies", "get_audit_log"}
ToolNames == ServerTools \cup {"no_such_tool"}
ValidArgs == {[limit |-> [prim |-> "10"]]}
ToolArgs == ValidArgs \cup {[limit |-> Str("ten")]}
HandlerOutcomes ==
    {Resolved([success |-> TRUE, data |-> [anomaliesFound |-> [prim |-> "3"]]]),
     Resolved([success |-> FALSE, error |-> Str("Provider not found")]),
     Thrown("Can't reach database server")}

priorityFields ==
    <<"summary", "overallRiskLevel", "currentRiskLevel", "riskLevel",
      "anomaliesDetected", "anomaliesFound", "totalDeceasedClaims", "matchesFound",
      "similarProvidersFound", "ringsDetected", "error">>

\* extractOutputSummary of an object: the priority fields that hold a string,
\* a number or a boolean, else the first keys.
extractOutputSummary(output) ==
    LET listed(f) == /\ f \in DOMAIN output
                     /\ DOMAIN output[f] \in {{"s"}, {"prim"}}
        parts == SelectSeq(priorityFields, listed)
    IN  IF parts # << >>
        THEN [parts |-> [k \in 1..Len(parts) |->
                            [field |-> parts[k], value |-> output[parts[k]]]]]
        ELSE [keys |-> DOMAIN output]

\* A log that drops nothing; C31 does not hold of it.
logToolCallUnbounded(log, tool, input, output, durationMs, success) ==
    LET entry == [id |-> log.logCounter + 1, tool |-> tool, input |-> input,
                  outputSummary |-> extractOutputSummary(output),
                  durationMs |-> durationMs, success |-> success]
    IN  [log EXCEPT !.logCounter = @ + 1, !.logs = <<entry>> \o log.logs]

\* logToolCall: the entry is put first, the oldest one dropped beyond
\* MAX_LOG_ENTRIES.
logToolCall(log, tool, input, output, durationMs, success) ==
    LET entry == [id |-> log.logCounter + 1, tool |-> tool, input |-> input,
                  outputSummary |-> extractOutputSummary(output),
                  durationMs |-> durationMs, success |-> success]
        logs == <<entry>> \o log.logs
    IN  [log EXCEPT !.logCounter = @ + 1,
                    !.logs = IF Len(logs) > MAX_LOG_ENTRIES
                             THEN SubSeq(logs, 1, Len(logs) - 1) ELSE logs]

\* Math.min(Math.max(1, limit), 200) for an integer limit.
safeLimit(limit) ==
    LET atLeastOne == IF limit > 1 THEN limit ELSE 1
    IN  IF atLeastOne < 200 THEN atLeastOne ELSE 200

\* getRecentLogs: auditLogs.slice(0, safeLimit).
getRecentLogs(log, limit) ==
    SubSeq(log.logs, 1,
           IF safeLimit(limit) < Len(log.logs) THEN safeLimit(limit)
           ELSE Len(log.logs))

\* clearLogs.
clearLogs(log) == [log EXCEPT !.logs = << >>, !.logCounter = 0]

toMcpResult(result) ==
    IF ~result.success
    THEN [content |-> <<TextItem([json |-> Pick(result, {"error"})])>>,
          isError |-> TRUE]
    ELSE [content |-> <<TextItem([json |-> result.data])>>]

McpError(members) ==
    [content |-> <<TextItem([json |-> members])>>, isError |-> TRUE]

\* The CallTool handler of the MCP server: the log after the call and the
\* result returned.
McpCallToolHandler(log, name, args, outcome, duration) ==
    IF name \notin ServerTools
    THEN LET errorResult == McpError([error |-> Cat("Unknown tool: ", Str(name))])
         IN  [log |-> logToolCall(log, name, args, errorResult, 0, FALSE),
              answer |-> errorResult]
    ELSE IF args \notin ValidArgs
    THEN LET errorResult == McpError([error |-> Str("Invalid input: Expected number")])
         IN  [log |-> logToolCall(log, name, args, errorResult, 0, FALSE),
              answer |-> errorResult]
    ELSE IF ~outcome.thrown
    THEN LET result == outcome.value
             mcpResult == toMcpResult(result)
         IN  [log |-> IF name # "get_audit_log"
                      THEN logToolCall(log, name, args, mcpResult, duration,
                                       result.success)
                      ELSE log,
              answer |-> mcpResult]
    ELSE LET errorResult == McpError([error |-> Str("Tool execution failed"),
                                      message |-> Str(outcome.message)])
         IN  [log |-> logToolCall(log, name, args, errorResult, duration, FALSE),
              answer |-> errorResult]

\* POST /api/tools/:toolName: the log after the call and the response.
RestToolRoute(log, toolName, args, outcome, duration) ==
    IF toolName \notin ServerTools
    THEN [log |-> log,
          answer |-> [status |-> 404,
                      body |-> [error |-> Cat("Tool not found: ", Str(toolName)),
                                availableTools |-> ServerTools]]]
    ELSE IF args \notin ValidArgs
    THEN [log |-> log,
          answer |-> [status |-> 400,
                      body |-> [error |-> Str("Invalid input"),
                                details |-> Str("Expected number")]]]
    ELSE IF ~outcome.thrown
    THEN LET result == outcome.value
         IN  [log |-> IF toolName # "get_audit_log"
                      THEN logToolCall(log, toolName, args, result, duration,
                                       result.success)
                      ELSE log,
              answer |-> IF ~result.success
                         THEN [status |-> 400,
                               body |-> [error |-> result.error,
                                         duration |-> duration]]
                         ELSE [status |-> 200,
                               body |-> [data |-> result.data,
                                         duration |-> duration]]]
    ELSE [log |-> logToolCall(log, toolName, args,
                              [error |-> Str(outcome.message)], duration, FALSE),
          answer |-> [status |-> 500,
                      body |-> [error |-> Str("Tool execution failed"),
                                message |-> Str(outcome.message),
                                duration |-> duration]]]

\* --------------------------------------------------------------- cancelTask
\* Per executor, one entry per call of cancelTask: the position of execute
\* when it was called (ghost) and how the call completed.
CancelInit == [p \in Procs |-> << >>]

\* A cancelTask that rejects unless the task is running; C25 does not hold
\* of it.
cancelTaskStrict(pc) ==
    IF pc \in {"idle", "done"} THEN Thrown("Task not cancelable")
    ELSE Resolved("undefined")

\* cancelTask: one log line, nothing else.
cancelTask(pc) == Resolved("undefined")

\* -------------------------------------------------------------------- Init
Init ==
    /\ topRole \in {"detection", "investigation"}
    /\ existingTask \in BOOLEAN
    /\ ex = [p \in Procs |-> ExInit]
    /\ bus = [p \in Procs |-> << >>]
    /\ deleg = [i \in Peers |-> DelegOff]
    /\ relay = RelayInit
    /\ out = << >>
    /\ outCall = << >>
    /\ wire = << >>
    /\ chat = ChatInit
    /\ mcpClient = McpInit
    /\ auditLogs = AuditInit
    /\ cancelLog = CancelInit

\* ------------------------------------------------------- executor actions
\* The rest of execute once responseText is known.
Finish(p, e, updates, responseText) ==
    /\ ex' = [ex EXCEPT ![p] = [e EXCEPT !.pc = "done"]]
    /\ Publish(p, updates \o CompletionUpdates(Role(p), responseText))

\* A request reaches executor p.
Arrived(p) ==
    IF p = 0 THEN topRole = "investigation" \/ relay.pc = "streaming"
    ELSE deleg[p].pc = "stream"

\* The reader of bus[p] has read all of it.  Readers are scheduled eagerly: a
\* process publishes on a bus only when its reader has caught up.  What a
\* reader yields depends only on the prefix it has read, so every sequence of
\* published, forwarded and yielded events stays reachable.
CaughtUp(p) ==
    IF p = 0 THEN topRole = "investigation" \/ relay.pos = Len(bus[0])
    ELSE deleg[p].pos = Len(bus[p])

\* An executor is followed only while the stream of its request is open.
Observed(p) ==
    /\ IF p = 0 THEN topRole = "investigation" \/ relay.pc = "streaming"
       ELSE deleg[p].pc = "stream"
    /\ CaughtUp(p)

\* An executor that publishes the initial task after the working updates;
\* C23 does not hold of it.
StartUpdatesTaskLate(p) ==
    <<StructuredUpdate(AgentActiveData(Role(p), "working"), 0),
      WorkingUpdate(Role(p))>>
    \o (IF p = 0 /\ existingTask THEN << >> ELSE <<InitialTask>>)

\* Steps 1-2 of execute: the initial task if the task is new, agent_active
\* working, the working update.
StartUpdates(p) ==
    (IF p = 0 /\ existingTask THEN << >> ELSE <<InitialTask>>)
    \o <<StructuredUpdate(AgentActiveData(Role(p), "working"), 0),
         WorkingUpdate(Role(p))>>

\* execute up to `await sendMessage(query)`.
Start(p) ==
    /\ ex[p].pc = "idle"
    /\ Arrived(p)
    /\ Observed(p)
    /\ ex' = [ex EXCEPT ![p].pc = "send", ![p].rt = 1]
    /\ Publish(p, StartUpdates(p))
    /\ UNCHANGED <<mcpClient, auditLogs, cancelLog, chat, topRole, existingTask, deleg, relay, out, outCall, wire>>

\* execute when the constructor of the Reasoner client throws.
StartFail(p) ==
    /\ ex[p].pc = "idle"
    /\ Arrived(p)
    /\ Observed(p)
    /\ \E m \in ReasonerErrors :
         Finish(p, [ex[p] EXCEPT !.failed = m], StartUpdates(p),
                ErrorResponseText(Role(p), m))
    /\ UNCHANGED <<mcpClient, auditLogs, cancelLog, chat, topRole, existingTask, deleg, relay, out, outCall, wire>>

NewSlots(p, r) ==
    [i \in 1..Len(r.toolCalls) |->
        [name |-> r.toolCalls[i], call |-> ex[p].ncall + i, st |-> "pending",
         mcp |-> "", success |-> FALSE, result |-> Pick(NoReply, {})]]

\* A Reasoner round trip resolves: the continuation runs to the next await,
\* which is Promise.all over the started tool calls, or to the end of execute.
ReasonerReply(p) ==
    /\ ex[p].pc \in {"send", "results"}
    /\ Observed(p)
    /\ \E r \in RepliesAt(p) :
         LET role == Role(p)
             thinking == IF ex[p].pc = "send" THEN InitialThinking(role, r)
                         ELSE LoopThinking(role, r)
             thinkingUpdates ==
                 [k \in 1..Len(thinking) |-> StructuredUpdate(thinking[k], 0)]
             slots == NewSlots(p, r)
         IN  IF LoopContinues(r, ex[p].iterations)
             THEN /\ ex' = [q \in Procs |->
                              IF q = p
                              THEN [ex[p] EXCEPT !.pc = "batch", !.resp = r,
                                                 !.iterations = @ + 1,
                                                 !.slots = slots,
                                                 !.ncall = @ + Len(slots)]
                              ELSE IF p = 0 THEN ExInit ELSE ex[q]]
                  /\ bus' = [q \in Procs |->
                              IF q = p
                              THEN bus[p] \o thinkingUpdates
                                   \o Flatten([i \in 1..Len(slots) |->
                                        CallStartUpdates(role, slots[i].name,
                                                         slots[i].call)])
                              ELSE IF p = 0 THEN << >> ELSE bus[q]]
                  /\ deleg' = IF p = 0
                              THEN [i \in Peers |->
                                      IF i <= Len(slots)
                                         /\ IsDelegation(p, slots[i].name)
                                      THEN [DelegOff EXCEPT !.pc = "connect"]
                                      ELSE DelegOff]
                              ELSE deleg
             ELSE /\ Finish(p, [ex[p] EXCEPT !.resp = r], thinkingUpdates,
                            FinalResponseText(role, r, ex[p].iterations))
                  /\ UNCHANGED deleg
    /\ UNCHANGED <<mcpClient, auditLogs, cancelLog, chat, topRole, existingTask, relay, out, outCall, wire>>

\* A Reasoner round trip rejects: the outer catch.
ReasonerFail(p) ==
    /\ ex[p].pc \in {"send", "results"}
    /\ Observed(p)
    /\ \E m \in ReasonerErrors :
         Finish(p, [ex[p] EXCEPT !.failed = m], << >>,
                ErrorResponseText(Role(p), m))
    /\ UNCHANGED <<mcpClient, auditLogs, cancelLog, chat, topRole, existingTask, deleg, relay, out, outCall, wire>>

\* A join that resolves with the first completed call of the batch, as
\* Promise.race would; C12 does not hold of it.
SettleFirst(p, i, mcp, duration, completion) ==
    LET role == Role(p)
        slot == ex[p].slots[i]
        ended == [slot EXCEPT !.st = "ended", !.mcp = mcp,
                              !.success = ~completion.thrown,
                              !.result = CallResult(role, slot.name, slot.call,
                                                    completion)]
        slots == [ex[p].slots EXCEPT ![i] = ended]
    IN  /\ ex' = [ex EXCEPT ![p].slots = slots,
                            ![p].pc = "results",
                            ![p].rt = @ + 1,
                            ![p].fed = <<ended.result>>]
        /\ Publish(p, <<CallEndUpdate(role, slot.name, slot.call, duration,
                                      completion)>>)

\* The continuation of one map callback after `await executeToolCall`; the
\* last one of the batch resolves Promise.all, and sendToolResults is called.
Settle(p, i, mcp, duration, completion) ==
    LET role == Role(p)
        slot == ex[p].slots[i]
        ended == [slot EXCEPT !.st = "ended", !.mcp = mcp,
                              !.success = ~completion.thrown,
                              !.result = CallResult(role, slot.name, slot.call,
                                                    completion)]
        slots == [ex[p].slots EXCEPT ![i] = ended]
        joined == \A j \in 1..Len(slots) : slots[j].st = "ended"
    IN  /\ ex' = [ex EXCEPT ![p].slots = slots,
                            ![p].pc = IF joined THEN "results" ELSE @,
                            ![p].rt = IF joined THEN @ + 1 ELSE @,
                            ![p].fed = IF joined
                                       THEN [j \in 1..Len(slots) |-> slots[j].result]
                                       ELSE @]
        /\ Publish(p, <<CallEndUpdate(role, slot.name, slot.call, duration,
                                      completion)>>)

\* A plain tool call completes.
ToolDone(p, i) ==
    /\ ex[p].pc = "batch"
    /\ Observed(p)
    /\ i \in 1..Len(ex[p].slots)
    /\ ex[p].slots[i].st = "pending"
    /\ ~IsDelegation(p, ex[p].slots[i].name)
    /\ \E mcp \in OutcomesAt(p), duration \in Durations :
         Settle(p, i, mcp, duration, executeToolCall(mcp))
    /\ UNCHANGED <<mcpClient, auditLogs, cancelLog, chat, topRole, existingTask, deleg, relay, out, outCall, wire>>

\* A delegation call completes.
DelegationDone(i) ==
    /\ ex[0].pc = "batch"
    /\ Observed(0)
    /\ i \in 1..Len(ex[0].slots)
    /\ ex[0].slots[i].st = "pending"
    /\ IsDelegation(0, ex[0].slots[i].name)
    /\ deleg[i].pc = "ret"
    /\ \E duration \in Durations :
         Settle(0, i, "", duration, executeDelegation(deleg[i].ret))
    /\ UNCHANGED <<mcpClient, auditLogs, cancelLog, chat, topRole, existingTask, deleg, relay, out, outCall, wire>>

\* --------------------------------------------- delegation client actions
DelegCall(i) == ex[0].slots[i].call

DelegActive(i) ==
    /\ ex[0].pc = "batch"
    /\ Observed(0)
    /\ i \in 1..Len(ex[0].slots)
    /\ ex[0].slots[i].st = "pending"

\* A catch block that returns without publishing agent_active completed; C11
\* does not hold of it.
DelegCatchSilent(i, m) ==
    /\ deleg' = [deleg EXCEPT ![i].pc = "ret", ![i].err = m,
                              ![i].ret = DelegationErrorResult(m)]
    /\ bus' = bus

\* The catch block: agent_active completed, then the synthesized result.
DelegCatch(i, m) ==
    /\ deleg' = [deleg EXCEPT ![i].pc = "ret", ![i].err = m,
                              ![i].ret = DelegationErrorResult(m)]
    /\ Publish(0, <<StructuredUpdate(AgentActiveData("investigation", "completed"),
                                     DelegCall(i))>>)

\* createFromUrl resolved and the message was sent.
DelegConnect(i) ==
    /\ DelegActive(i)
    /\ deleg[i].pc = "connect"
    /\ deleg' = [deleg EXCEPT ![i].pc = "stream"]
    /\ UNCHANGED <<mcpClient, auditLogs, cancelLog, chat, topRole, existingTask, ex, bus, relay, out, outCall, wire>>

\* createFromUrl rejected: the peer is unreachable.
DelegConnectFail(i) ==
    /\ DelegActive(i)
    /\ deleg[i].pc = "connect"
    /\ \E m \in DelegationErrors : DelegCatch(i, m)
    /\ UNCHANGED <<mcpClient, auditLogs, cancelLog, chat, topRole, existingTask, ex, relay, out, outCall, wire>>

\* The stream of the peer ended: it ends with the update marked final.
StreamEnded(q, pos) == pos > 0 /\ bus[q][pos].final

\* A loop that reads the peer's stream and forwards nothing while it reads;
\* C28 does not hold of it.
DelegReadHolding(i) ==
    /\ DelegActive(i)
    /\ deleg[i].pc = "stream"
    /\ deleg[i].pos < Len(bus[i])
    /\ ~StreamEnded(i, deleg[i].pos)
    /\ deleg' = [deleg EXCEPT
                   ![i].pos = @ + 1,
                   ![i].responseText = ResponseTextAfter(bus[i][deleg[i].pos + 1], @)]
    /\ UNCHANGED <<mcpClient, auditLogs, cancelLog, chat, topRole, existingTask,
                   ex, bus, relay, out, outCall, wire>>

\* One turn of the loop over the peer's stream.
DelegRead(i) ==
    /\ DelegActive(i)
    /\ deleg[i].pc = "stream"
    /\ deleg[i].pos < Len(bus[i])
    /\ ~StreamEnded(i, deleg[i].pos)
    /\ LET update == bus[i][deleg[i].pos + 1]
           forwarded == ForwardedData(update)
       IN  /\ deleg' = [deleg EXCEPT
                          ![i].pos = @ + 1,
                          ![i].responseText = ResponseTextAfter(update, @)]
           /\ Publish(0, [k \in 1..Len(forwarded) |->
                            StructuredUpdate(forwarded[k], DelegCall(i))])
    /\ UNCHANGED <<mcpClient, auditLogs, cancelLog, chat, topRole, existingTask, ex, relay, out, outCall, wire>>

\* The loop over the peer's stream ended normally.
DelegEnd(i) ==
    /\ DelegActive(i)
    /\ deleg[i].pc = "stream"
    /\ StreamEnded(i, deleg[i].pos)
    /\ deleg' = [deleg EXCEPT ![i].pc = "ret",
                              ![i].ret = DelegationResult(deleg[i].responseText)]
    /\ Publish(0, <<StructuredUpdate(AgentActiveData("investigation", "completed"),
                                     DelegCall(i))>>)
    /\ UNCHANGED <<mcpClient, auditLogs, cancelLog, chat, topRole, existingTask, ex, relay, out, outCall, wire>>

\* The stream of the peer threw.
DelegAbort(i) ==
    /\ DelegActive(i)
    /\ deleg[i].pc = "stream"
    /\ ~StreamEnded(i, deleg[i].pos)
    /\ Solo(i)
    /\ \E m \in DelegationErrors : DelegCatch(i, m)
    /\ UNCHANGED <<mcpClient, auditLogs, cancelLog, chat, topRole, existingTask, ex, relay, out, outCall, wire>>

\* ----------------------------------------------------------- relay actions
\* createFromUrl resolved: agent_active working is yielded, the message sent.
RelayConnect ==
    /\ topRole = "detection"
    /\ relay.pc = "init"
    /\ relay' = [relay EXCEPT !.pc = "streaming"]
    /\ Yield(<<[type |-> "agent_active", agent |-> "detection",
                vendor |-> "anthropic", status |-> "working"]>>, 0)
    /\ UNCHANGED <<mcpClient, auditLogs, cancelLog, chat, topRole, existingTask, ex, bus, deleg>>

\* The catch block of sendToDetectionAgent.
RelayCatch ==
    /\ \E m \in RelayErrors : Yield(<<ErrorYield(m)>>, 0)
    /\ relay' = [relay EXCEPT !.pc = "done", !.aborted = TRUE]

\* createFromUrl rejected: the Detection Agent is unreachable.
RelayConnectFail ==
    /\ topRole = "detection"
    /\ relay.pc = "init"
    /\ RelayCatch
    /\ UNCHANGED <<mcpClient, auditLogs, cancelLog, chat, topRole, existingTask, ex, bus, deleg>>

\* One turn of the loop over the Detection Agent's stream.
RelayRead ==
    /\ relay.pc = "streaming"
    /\ relay.pos < Len(bus[0])
    /\ ~StreamEnded(0, relay.pos)
    /\ LET update == bus[0][relay.pos + 1]
       IN  /\ relay' = [relay EXCEPT
                          !.pos = @ + 1,
                          !.finalText = FinalTextAfter(update, @),
                          !.taskId = TaskIdAfter(update, @)]
           /\ Yield(YieldsFor(update), update.call)
    /\ UNCHANGED <<mcpClient, auditLogs, cancelLog, chat, topRole, existingTask, ex, bus, deleg>>

\* The stream ended: the final text and done are yielded.
RelayEnd ==
    /\ relay.pc = "streaming"
    /\ StreamEnded(0, relay.pos)
    /\ relay' = [relay EXCEPT !.pc = "done"]
    /\ Yield(ClosingYields(relay.finalText, relay.taskId), 0)
    /\ UNCHANGED <<mcpClient, auditLogs, cancelLog, chat, topRole, existingTask, ex, bus, deleg>>

\* The stream threw.
RelayAbort ==
    /\ relay.pc = "streaming"
    /\ ~StreamEnded(0, relay.pos)
    /\ RelayCatch
    /\ UNCHANGED <<mcpClient, auditLogs, cancelLog, chat, topRole, existingTask, ex, bus, deleg>>

\* -------------------------------------------------------------------- Next
Next ==
    \/ \E p \in Procs : Start(p)
    \/ \E p \in Procs : StartFail(p)
    \/ \E p \in Procs : ReasonerReply(p)
    \/ \E p \in Procs : ReasonerFail(p)
    \/ \E p \in Procs, i \in 1..MaxBatch : ToolDone(p, i)
    \/ \E i \in Peers : DelegationDone(i)
    \/ \E i \in Peers : DelegConnect(i)
    \/ \E i \in Peers : DelegConnectFail(i)
    \/ \E i \in Peers : DelegRead(i)
    \/ \E i \in Peers : DelegEnd(i)
    \/ \E i \in Peers : DelegAbort(i)
    \/ RelayConnect
    \/ RelayConnectFail
    \/ RelayRead
    \/ RelayEnd
    \/ RelayAbort

Spec == Init /\ [][Next]_vars

\* ------------------------------------------------------------ Chat actions
FetchErrors == {"Failed to fetch"}

\* handleSend up to `await fetch(...)`.
Send ==
    /\ chat.pc = "idle"
    /\ chat' = [chat EXCEPT
                  !.pc = "fetching",
                  !.toolCalls = << >>, !.delegations = << >>,
                  !.thoughts = << >>, !.agents = DEFAULT_AGENTS,
                  !.messages = Append(@, [role |-> "user",
                                          content |-> <<Str("question")>>]),
                  !.isLoading = TRUE, !.streamingContent = << >>]
    /\ UNCHANGED <<mcpClient, auditLogs, cancelLog, topRole, existingTask, ex, bus, deleg, relay, out, outCall, wire>>

\* fetch rejected.
FetchFail ==
    /\ chat.pc = "fetching"
    /\ \E m \in FetchErrors : chat' = CatchFinally(chat, m)
    /\ UNCHANGED <<mcpClient, auditLogs, cancelLog, topRole, existingTask, ex, bus, deleg, relay, out, outCall, wire>>

\* The response is not ok: the route answered 400.
FetchNotOk ==
    /\ chat.pc = "fetching"
    /\ chat' = CatchFinally(chat, "HTTP error: 400")
    /\ UNCHANGED <<mcpClient, auditLogs, cancelLog, topRole, existingTask, ex, bus, deleg, relay, out, outCall, wire>>

\* The response has no body.
FetchNoBody ==
    /\ chat.pc = "fetching"
    /\ chat' = CatchFinally(chat, "No response body")
    /\ UNCHANGED <<mcpClient, auditLogs, cancelLog, topRole, existingTask, ex, bus, deleg, relay, out, outCall, wire>>

\* The response is ok: the read loop starts.
FetchOk ==
    /\ chat.pc = "fetching"
    /\ chat' = [chat EXCEPT !.pc = "reading", !.pos = 0, !.buffer = << >>,
                            !.currentContent = << >>]
    /\ UNCHANGED <<mcpClient, auditLogs, cancelLog, topRole, existingTask, ex, bus, deleg, relay, out, outCall, wire>>

\* reader.read() resolved with the next chunk, of any length.
ReadChunk ==
    /\ chat.pc = "reading"
    /\ chat.pos < Len(Bytes(wire))
    /\ \E n \in 1..(Len(Bytes(wire)) - chat.pos) :
         chat' = DecodeChunk([chat EXCEPT !.pos = @ + n],
                             SubSeq(Bytes(wire), chat.pos + 1, chat.pos + n))
    /\ UNCHANGED <<mcpClient, auditLogs, cancelLog, topRole, existingTask, ex, bus, deleg, relay, out, outCall, wire>>

\* reader.read() resolved with done: the response has ended.
ReadDone ==
    /\ chat.pc = "reading"
    /\ chat.pos = Len(Bytes(wire))
    /\ chat' = Finally(chat)
    /\ UNCHANGED <<mcpClient, auditLogs, cancelLog, topRole, existingTask, ex, bus, deleg, relay, out, outCall, wire>>

\* reader.read() rejected: the connection broke.
ReadFail ==
    /\ chat.pc = "reading"
    /\ \E m \in FetchErrors : chat' = CatchFinally(chat, m)
    /\ UNCHANGED <<mcpClient, auditLogs, cancelLog, topRole, existingTask, ex, bus, deleg, relay, out, outCall, wire>>

\* ---------------------------------------------------------------- SpecChat
\* The Chat client over the responses the chat route can write: up to
\* MaxFrames frames, each the frame of an event of the relay.
MaxFrames == 4

SampleEvents ==
    {[type |-> "agent_active", agent |-> "detection", vendor |-> "anthropic",
      status |-> "working"],
     [type |-> "agent_active", agent |-> "detection", vendor |-> "anthropic",
      status |-> "completed"],
     [type |-> "mcp_tool", agent |-> "detection", tool |-> "find_anomalies",
      status |-> "start"],
     [type |-> "mcp_tool", agent |-> "detection", tool |-> "find_anomalies",
      status |-> "end", duration |-> 120, success |-> TRUE],
     [type |-> "text", text |-> Str("Findings")],
     [type |-> "done", taskId |-> "task-1"],
     [type |-> "done"],
     ErrorYield("socket hang up")}

\* The shape of what sendToDetectionAgent yields: the error event alone when
\* the connection failed; else agent_active working first, and last either
\* the error event, or done after agent_active completed and the final text
\* if there is one.
RelayShaped(events) ==
    LET n == Len(events)
        working == [type |-> "agent_active", agent |-> "detection",
                    vendor |-> "anthropic", status |-> "working"]
        completed == [type |-> "agent_active", agent |-> "detection",
                      vendor |-> "anthropic", status |-> "completed"]
    IN  /\ n >= 1
        /\ events[n].type \in {"done", "error"}
        /\ \A k \in 1..(n - 1) : events[k].type \notin {"done", "error", "text"}
                                 \/ (events[k].type = "text" /\ k = n - 1
                                     /\ events[n].type = "done")
        /\ n > 1 \/ events[n].type = "error"
        /\ n > 1 => events[1] = working
        /\ events[n].type = "done" =>
             \E k \in {n - 1, n - 2} : k >= 2 /\ events[k] = completed
                 /\ \A j \in (k + 1)..(n - 1) : events[j].type = "text"

Responses ==
    {FramesFor(events) :
        events \in {es \in UNION {[1..n -> SampleEvents] : n \in 1..MaxFrames} :
                       RelayShaped(es)}}

InitChat ==
    /\ topRole = "detection"
    /\ existingTask = FALSE
    /\ ex = [p \in Procs |-> ExInit]
    /\ bus = [p \in Procs |-> << >>]
    /\ deleg = [i \in Peers |-> DelegOff]
    /\ relay = RelayInit
    /\ out = << >>
    /\ outCall = << >>
    /\ wire \in Responses
    /\ chat = ChatInit
    /\ mcpClient = McpInit
    /\ auditLogs = AuditInit
    /\ cancelLog = CancelInit

NextChat ==
    \/ Send
    \/ FetchFail
    \/ FetchNotOk
    \/ FetchNoBody
    \/ FetchOk
    \/ ReadChunk
    \/ ReadDone
    \/ ReadFail

SpecChat == InitChat /\ [][NextChat]_vars

\* -------------------------------------------------------------- SpecDecode
\* The Chat client over bodies that need not come from the chat route: one
\* frame with an object of any combination of the fields the decoder tests,
\* or with a text that is no JSON object; or up to MaxDecoded frames of a
\* conversation, noise included.
MaxDecoded == 3

PayloadFields ==
    {"agent", "vendor", "status", "tool", "from", "to", "text", "taskId",
     "message"}

PayloadDefaults ==
    [agent |-> "detection", vendor |-> "anthropic", status |-> "working",
     tool |-> "find_anomalies", from |-> "detection", to |-> "investigation",
     text |-> Str("3 anomalies"), taskId |-> "task-1",
     message |-> "socket hang up"]

\* Objects with every combination of the fields, and one with another field.
PayloadObjects ==
    {[f \in fs |-> PayloadDefaults[f]] : fs \in SUBSET PayloadFields}
    \cup {[progress |-> 50]}

ForeignFrames ==
    {[event |-> "message", data |-> o] : o \in PayloadObjects}
    \cup {[event |-> "message", raw |-> r] : r \in RawTexts}

NoiseFrames ==
    {[event |-> "message", raw |-> r] : r \in RawTexts}
    \cup {[event |-> "message", data |-> [progress |-> 50]]}

TurnFrames ==
    {FrameFor(e) : e \in
        {[type |-> "agent_active", agent |-> "detection", vendor |-> "anthropic",
          status |-> "working"],
         [type |-> "mcp_tool", agent |-> "detection", tool |-> "find_anomalies",
          status |-> "start"],
         [type |-> "mcp_tool", agent |-> "detection", tool |-> "find_anomalies",
          status |-> "end", duration |-> 120, success |-> TRUE],
         [type |-> "text", text |-> Str("3 anomalies")],
         [type |-> "text", text |-> Str(" found.")],
         [type |-> "a2a_delegation", from |-> "detection",
          to |-> "investigation"],
         [type |-> "done", taskId |-> "task-1"]}}
    \cup {[event |-> "message", raw |-> "not json"],
          [event |-> "message", raw |-> "[]"]}

\* Scenario A: a tool call, the answer in two fragments, done.
ScenarioA ==
    [k \in 1..5 |->
        FrameFor(<<[type |-> "mcp_tool", agent |-> "detection",
                    tool |-> "find_anomalies", status |-> "start"],
                   [type |-> "mcp_tool", agent |-> "detection",
                    tool |-> "find_anomalies", status |-> "end",
                    duration |-> 120, success |-> TRUE],
                   [type |-> "text", text |-> Str("3 anomalies")],
                   [type |-> "text", text |-> Str(" found.")],
                   [type |-> "done", taskId |-> "task-1"]>>[k])]

\* Two calls of the same tool by the same agent run at once and end one
\* after the other, the first with success, the second without.
ScenarioTwoCalls ==
    [k \in 1..4 |->
        FrameFor(<<[type |-> "mcp_tool", agent |-> "detection",
                    tool |-> "find_anomalies", status |-> "start"],
                   [type |-> "mcp_tool", agent |-> "detection",
                    tool |-> "find_anomalies", status |-> "start"],
                   [type |-> "mcp_tool", agent |-> "detection",
                    tool |-> "find_anomalies", status |-> "end",
                    duration |-> 120, success |-> TRUE],
                   [type |-> "mcp_tool", agent |-> "detection",
                    tool |-> "find_anomalies", status |-> "end",
                    duration |-> 450, success |-> FALSE]>>[k])]

DecoderInputs ==
    {<<f>> : f \in ForeignFrames}
    \cup {ScenarioA, ScenarioTwoCalls}
    \cup UNION {[1..n -> TurnFrames] : n \in 1..MaxDecoded}
    \cup {<<FrameFor([type |-> "text", text |-> Str("3 anomalies")]), f>> :
            f \in NoiseFrames}

InitDecode ==
    /\ topRole = "detection"
    /\ existingTask = FALSE
    /\ ex = [p \in Procs |-> ExInit]
    /\ bus = [p \in Procs |-> << >>]
    /\ deleg = [i \in Peers |-> DelegOff]
    /\ relay = RelayInit
    /\ out = << >>
    /\ outCall = << >>
    /\ wire \in DecoderInputs
    /\ chat = ChatInit
    /\ mcpClient = McpInit
    /\ auditLogs = AuditInit
    /\ cancelLog = CancelInit

SpecDecode == InitDecode /\ [][NextChat]_vars

\* --------------------------------------------------------------- SpecTools
\* The MCP client module of an agent: callTool and listTools are called one
\* after the other, each with whatever the connection and the server do.
MaxToolCalls == 2

CallTool ==
    /\ Len(mcpClient.ret) < MaxToolCalls
    /\ \E connection \in Connections(mcpClient.client), response \in CallResponses :
         mcpClient' =
            [client |-> ClientAfterCall(mcpClient.client, connection, response),
             ret |-> Append(mcpClient.ret,
                            [op |-> "callTool", connection |-> connection,
                             response |-> response,
                             returned |-> CallToolReturns(connection, response)])]
    /\ UNCHANGED <<topRole, existingTask, ex, bus, deleg, relay, out, outCall, wire,
                   chat, auditLogs, cancelLog>>

ListTools ==
    /\ Len(mcpClient.ret) < MaxToolCalls
    /\ \E connection \in Connections(mcpClient.client), response \in ListResponses :
         mcpClient' =
            [client |-> mcpClient.client \/ connection = "connected",
             ret |-> Append(mcpClient.ret,
                            [op |-> "listTools", connection |-> connection,
                             response |-> response,
                             returned |-> ListToolsReturns(connection, response)])]
    /\ UNCHANGED <<topRole, existingTask, ex, bus, deleg, relay, out, outCall, wire,
                   chat, auditLogs, cancelLog>>

NextTools == CallTool \/ ListTools

SpecTools == Init /\ [][NextTools]_vars

\* --------------------------------------------------------------- SpecCancel
\* The executor that received the request, with the relay reading its
\* stream, and cancelTask called for its task at any moment: before the
\* task exists, while a Reasoner round trip or a batch of tool calls is in
\* flight, and after the task ended.  Delegated peers do not answer here, so
\* a delegation call stays in flight.
MaxCancels == 2

CancelTask(p) ==
    /\ Len(cancelLog[p]) < MaxCancels
    /\ cancelLog' = [cancelLog EXCEPT ![p] =
                       Append(@, [pc |-> ex[p].pc,
                                  returned |-> cancelTask(ex[p].pc)])]
    /\ UNCHANGED <<topRole, existingTask, ex, bus, deleg, relay, out, outCall, wire,
                   chat, mcpClient, auditLogs>>

NextCancel ==
    \/ Start(0)
    \/ StartFail(0)
    \/ ReasonerReply(0)
    \/ ReasonerFail(0)
    \/ \E i \in 1..MaxBatch : ToolDone(0, i)
    \/ RelayConnect
    \/ RelayConnectFail
    \/ RelayRead
    \/ RelayEnd
    \/ RelayAbort
    \/ CancelTask(0)

SpecCancel == Init /\ [][NextCancel]_vars

\* --------------------------------------------------------------- SpecServer
\* The tool server: tool calls arrive one after the other at the MCP handler
\* and at the REST route.
MaxServerCalls == 2

Received(via, name, args, outcome, served) ==
    auditLogs' =
        [served.log EXCEPT !.answers =
            Append(@, [via |-> via, name |-> name, args |-> args,
                       outcome |-> outcome, answer |-> served.answer])]

McpToolCall ==
    /\ Len(auditLogs.answers) < MaxServerCalls
    /\ \E name \in ToolNames, args \in ToolArgs, outcome \in HandlerOutcomes,
          duration \in Durations :
         Received("mcp", name, args, outcome,
                  McpCallToolHandler(auditLogs, name, args, outcome, duration))
    /\ UNCHANGED <<topRole, existingTask, ex, bus, deleg, relay, out, outCall, wire,
                   chat, mcpClient, cancelLog>>

RestToolCall ==
    /\ Len(auditLogs.answers) < MaxServerCalls
    /\ \E name \in ToolNames, args \in ToolArgs, outcome \in HandlerOutcomes,
          duration \in Durations :
         Received("rest", name, args, outcome,
                  RestToolRoute(auditLogs, name, args, outcome, duration))
    /\ UNCHANGED <<topRole, existingTask, ex, bus, deleg, relay, out, outCall, wire,
                   chat, mcpClient, cancelLog>>

NextServer == McpToolCall \/ RestToolCall

SpecServer == Init /\ [][NextServer]_vars

\* ---------------------------------------------------------------- SpecRoute
\* The chat route and sendToDetectionAgent with a client that may close the
\* connection at any moment before the response has ended.
ClientDisconnect ==
    /\ topRole = "detection"
    /\ relay.pc \in {"init", "streaming"}
    /\ relay.socket = "open"
    /\ relay' = [relay EXCEPT !.socket = "closed"]
    /\ UNCHANGED <<topRole, existingTask, ex, bus, deleg, out, outCall, wire,
                   chat, mcpClient, auditLogs, cancelLog>>

\* res.write throws on the closed connection: the catch block of the route
\* runs, its sendEvent throws again, and the loop has returned the generator.
RelayWriteThrows ==
    /\ relay.pc = "streaming"
    /\ relay.socket = "closed"
    /\ relay.pos < Len(bus[0])
    /\ ~StreamEnded(0, relay.pos)
    /\ LET update == bus[0][relay.pos + 1]
       IN  /\ YieldsFor(update) # << >>
           /\ relay' = [relay EXCEPT !.pc = "done", !.aborted = TRUE,
                                     !.pos = @ + 1]
           /\ out' = Append(out, Head(YieldsFor(update)))
           /\ outCall' = Append(outCall, update.call)
           /\ wire' = wire
    /\ UNCHANGED <<topRole, existingTask, ex, bus, deleg, chat, mcpClient,
                   auditLogs, cancelLog>>

NextRoute ==
    \/ Start(0)
    \/ StartFail(0)
    \/ ReasonerReply(0)
    \/ ReasonerFail(0)
    \/ \E i \in 1..MaxBatch : ToolDone(0, i)
    \/ RelayConnect
    \/ RelayConnectFail
    \/ RelayRead
    \/ RelayEnd
    \/ RelayAbort
    \/ ClientDisconnect
    \/ RelayWriteThrows

SpecRoute == Init /\ [][NextRoute]_vars

\* ------------------------------------------------------------- SpecForward
\* The delegation client over the streams a peer may send: the peer is a
\* remote A2A server, and its updates carry whatever its payloads hold.  The
\* state at the start is the one of Spec when the first reply of the
\* detection Reasoner requested one delegation and the stream to the peer
\* was opened; the updates of the peer lie on bus[1] and are read one by one.
MaxForwarded == 2

PeerPayloads ==
    {[type |-> "mcp_tool", agent |-> "investigation", tool |-> "explain_risk_score",
      status |-> "start"],
     [type |-> "mcp_tool", agent |-> "detection", tool |-> "explain_risk_score",
      status |-> "start"],
     [type |-> "mcp_tool", tool |-> "explain_risk_score", status |-> "end",
      duration |-> 120, success |-> TRUE],
     [type |-> "mcp_tool", agent |-> "detection", tool |-> "explain_risk_score",
      status |-> "end", duration |-> 120, success |-> FALSE, note |-> "retried"],
     [type |-> "agent_active", agent |-> "investigation", vendor |-> "google",
      status |-> "working"],
     [type |-> "thinking", agent |-> "detection", text |-> Str("plan")],
     [type |-> "progress", agent |-> "detection", percent |-> 50],
     [percent |-> 50]}

PeerUpdates ==
    {StructuredUpdate(d, 0) : d \in PeerPayloads}
    \cup {InitialTask, WorkingUpdate("investigation")}

PeerStreams ==
    LET bodies == UNION {[1..n -> PeerUpdates] : n \in 0..MaxForwarded}
    IN  bodies \cup {Append(b, FinalUpdate(t)) :
                        b \in bodies, t \in {Str("Report"), Str("{draft")}}

ForwardReply ==
    [text |-> Str(""), thinking |-> Str(""), toolCalls |-> <<DelegateTool>>]

ForwardSlots ==
    <<[name |-> DelegateTool, call |-> 1, st |-> "pending", mcp |-> "",
       success |-> FALSE, result |-> Pick(NoReply, {})]>>

InitForward ==
    /\ topRole = "detection"
    /\ existingTask = FALSE
    /\ ex = [p \in Procs |->
               IF p = 0
               THEN [ExInit EXCEPT !.pc = "batch", !.resp = ForwardReply,
                                   !.iterations = 1, !.slots = ForwardSlots,
                                   !.rt = 1, !.ncall = 1]
               ELSE ExInit]
    /\ \E stream \in PeerStreams :
         bus = [p \in Procs |->
                  IF p = 0
                  THEN StartUpdates(0) \o CallStartUpdates("detection", DelegateTool, 1)
                  ELSE IF p = 1 THEN stream ELSE << >>]
    /\ deleg = [i \in Peers |->
                  IF i = 1 THEN [DelegOff EXCEPT !.pc = "stream"] ELSE DelegOff]
    /\ relay = [RelayInit EXCEPT !.pc = "streaming", !.pos = Len(bus[0]),
                                 !.taskId = "task-1"]
    /\ out = <<[type |-> "agent_active", agent |-> "detection",
                vendor |-> "anthropic", status |-> "working"]>>
             \o Flatten([k \in 1..Len(bus[0]) |-> YieldsFor(bus[0][k])])
    /\ outCall = <<0>> \o Flatten([k \in 1..Len(bus[0]) |->
                     [j \in 1..Len(YieldsFor(bus[0][k])) |-> bus[0][k].call]])
    /\ wire = FramesFor(out)
    /\ chat = ChatInit
    /\ mcpClient = McpInit
    /\ auditLogs = AuditInit
    /\ cancelLog = CancelInit

NextForward ==
    \/ \E i \in Peers : DelegRead(i)
    \/ \E i \in Peers : DelegEnd(i)
    \/ \E i \in Peers : DelegAbort(i)
    \/ \E i \in Peers : DelegationDone(i)
    \/ RelayRead

SpecForward == InitForward /\ [][NextForward]_vars

\* ----------------------------------------------------------------- SpecConn
\* The connection of the MCP client under concurrent callTool calls.  The
\* record holds mcpClient and connectionPromise (0 for null, else the number
\* of the connection attempt, which is also the name of the client it
\* yields), the state of every attempt started, the clients that were
\* connected and neither closed nor given up after a connection error of
\* their own, the number of resets done for a failed call, and, for every
\* caller, where its callTool stands and the attempt or client it awaits.
MaxCallers == 2
MaxAttempts == 3

Callers == 1..MaxCallers

ConnInit ==
    [mcpClient |-> 0, connectionPromise |-> 0, attempts |-> << >>,
     live |-> {}, resets |-> 0,
     calls |-> [c \in Callers |-> [pc |-> "idle", on |-> 0]]]

InitConn ==
    /\ mcpClient = ConnInit
    /\ topRole = "detection"
    /\ existingTask = FALSE
    /\ ex = [p \in Procs |-> ExInit]
    /\ bus = [p \in Procs |-> << >>]
    /\ deleg = [i \in Peers |-> DelegOff]
    /\ relay = RelayInit
    /\ out = << >> /\ outCall = << >> /\ wire = << >>
    /\ chat = ChatInit
    /\ auditLogs = AuditInit
    /\ cancelLog = CancelInit

ConnUnchanged ==
    UNCHANGED <<topRole, existingTask, ex, bus, deleg, relay, out, outCall,
                wire, chat, auditLogs, cancelLog>>

\* callTool up to its first await that waits: getMcpClient returns the
\* client, or the connection attempt under way, or starts one.
GetMcpClient(c) ==
    LET m == mcpClient
    IN  /\ m.calls[c].pc = "idle"
        /\ IF m.mcpClient # 0
           THEN mcpClient' =
                  [m EXCEPT !.calls[c] = [pc |-> "calling", on |-> m.mcpClient]]
           ELSE IF m.connectionPromise # 0
           THEN mcpClient' =
                  [m EXCEPT !.calls[c] =
                      [pc |-> IF m.attempts[m.connectionPromise] = "connected"
                              THEN "calling" ELSE "joined",
                       on |-> m.connectionPromise]]
           ELSE /\ Len(m.attempts) < MaxAttempts
                /\ mcpClient' =
                     [m EXCEPT !.attempts = Append(@, "pending"),
                               !.connectionPromise = Len(m.attempts) + 1,
                               !.calls[c] = [pc |-> "connecting",
                                             on |-> Len(m.attempts) + 1]]
        /\ ConnUnchanged

\* connectMcpClient resolves: the caller that started it stores the client,
\* and it and the callers that waited for the same attempt go on to
\* client.callTool.
ConnectResolves(a) ==
    LET m == mcpClient
    IN  /\ a \in 1..Len(m.attempts)
        /\ m.attempts[a] = "pending"
        /\ mcpClient' =
             [m EXCEPT !.attempts[a] = "connected",
                       !.live = @ \cup {a},
                       !.mcpClient = a,
                       !.calls = [c \in Callers |->
                                    IF m.calls[c].on = a
                                       /\ m.calls[c].pc \in {"connecting", "joined"}
                                    THEN [pc |-> "calling", on |-> a]
                                    ELSE m.calls[c]]]
        /\ ConnUnchanged

\* connectMcpClient rejects: the catch of getMcpClient clears
\* connectionPromise, and the catch of callTool, in every caller that waited
\* for the attempt, resets both on a connection error.
ConnectRejects(a) ==
    LET m == mcpClient
    IN  /\ a \in 1..Len(m.attempts)
        /\ m.attempts[a] = "pending"
        /\ \E message \in McpMessages :
             mcpClient' =
               [m EXCEPT !.attempts[a] = "failed",
                         !.connectionPromise = 0,
                         !.mcpClient = IF message \in ConnectMessages THEN 0 ELSE @,
                         !.calls = [c \in Callers |->
                                      IF m.calls[c].on = a
                                         /\ m.calls[c].pc \in {"connecting", "joined"}
                                      THEN [pc |-> "idle", on |-> 0]
                                      ELSE m.calls[c]]]
        /\ ConnUnchanged

\* client.callTool settles with a result or with an error that is no
\* connection error: callTool returns.
CallSettles(c) ==
    /\ mcpClient.calls[c].pc = "calling"
    /\ mcpClient' = [mcpClient EXCEPT !.calls[c] = [pc |-> "idle", on |-> 0]]
    /\ ConnUnchanged

\* client.callTool rejects with a connection error: the catch of callTool
\* resets mcpClient and connectionPromise.
CallRejectsConnect(c) ==
    LET m == mcpClient
    IN  /\ m.calls[c].pc = "calling"
        /\ mcpClient' = [m EXCEPT !.mcpClient = 0,
                                  !.connectionPromise = 0,
                                  !.live = @ \ {m.calls[c].on},
                                  !.resets = IF @ < MaxAttempts THEN @ + 1 ELSE @,
                                  !.calls[c] = [pc |-> "idle", on |-> 0]]
        /\ ConnUnchanged

NextConn ==
    \/ \E c \in Callers : GetMcpClient(c)
    \/ \E a \in 1..MaxAttempts : ConnectResolves(a)
    \/ \E a \in 1..MaxAttempts : ConnectRejects(a)
    \/ \E c \in Callers : CallSettles(c)
    \/ \E c \in Callers : CallRejectsConnect(c)

SpecConn == InitConn /\ [][NextConn]_vars

\* ----------------------------------------------------------------- SpecWire
\* The wire format alone: the chat route writes events the relay can yield,
\* in any order.
MaxWired == 2

\* The structured events the executors and the delegation client publish.
PublishedData ==
    {AgentActiveData(a, st) : a \in {"detection", "investigation"},
                              st \in {"working", "completed"}}
    \cup UNION {{ToolStartData(a, t) : t \in ToolsOf("detection")} :
                    a \in {"detection", "investigation"}}
    \cup UNION {{ToolEndData(a, t, d, b) : t \in ToolsOf("detection"),
                                           d \in {0, 120}, b \in BOOLEAN} :
                    a \in {"detection", "investigation"}}
    \cup {DelegationData}
    \cup {ThinkingData(a, Str("Next I will check")) :
            a \in {"detection", "investigation"}}

\* The events sendToDetectionAgent yields: for the structured events, for
\* the final update, after the stream, and from its catch block.
RelayEvents ==
    UNION {LET events == YieldsFor(StructuredUpdate(d, 0))
           IN  {events[k] : k \in 1..Len(events)} : d \in PublishedData}
    \cup {YieldsFor(FinalUpdate(Str("Findings")))[1]}
    \cup UNION {LET events == ClosingYields(t, id)
                IN  {events[k] : k \in 1..Len(events)} :
                    t \in {Str(""), Str("Findings")}, id \in {"", "task-1"}}
    \cup {ErrorYield(m) : m \in RelayErrors \cup {""}}

InitWire ==
    /\ topRole = "detection"
    /\ existingTask = FALSE
    /\ ex = [p \in Procs |-> ExInit]
    /\ bus = [p \in Procs |-> << >>]
    /\ deleg = [i \in Peers |-> DelegOff]
    /\ relay = RelayInit
    /\ out = << >> /\ outCall = << >> /\ wire = << >>
    /\ chat = ChatInit
    /\ mcpClient = McpInit
    /\ auditLogs = AuditInit
    /\ cancelLog = CancelInit

\* One turn of the route's loop for an event of the relay.
RouteWrites ==
    /\ Len(out) < MaxWired
    /\ \E e \in RelayEvents : Yield(<<e>>, 0)
    /\ UNCHANGED <<topRole, existingTask, ex, bus, deleg, relay, chat,
                   mcpClient, auditLogs, cancelLog>>

SpecWire == InitWire /\ [][RouteWrites]_vars

\* ---------------------------------------------------------------- SpecAudit
\* The audit log alone: logToolCall, getRecentLogs and clearLogs are called
\* one after the other on a log that holds the entries of earlier calls.
MaxAuditOps == 3

\* The log after n calls of logToolCall.
LoggedBefore(n) ==
    [logs |-> [k \in 1..n |->
                 [id |-> n - k + 1, tool |-> "find_anomalies",
                  input |-> [limit |-> [prim |-> "10"]],
                  outputSummary |->
                      extractOutputSummary([anomaliesFound |-> [prim |-> "3"]]),
                  durationMs |-> 120, success |-> TRUE]],
     logCounter |-> n, answers |-> << >>]

LogSizes == {0, 2, 201, MAX_LOG_ENTRIES - 1, MAX_LOG_ENTRIES}

Limits == {-1, 0, 1, 50, 200, 201, 1000}

InitAudit ==
    /\ \E n \in LogSizes : auditLogs = LoggedBefore(n)
    /\ topRole = "detection"
    /\ existingTask = FALSE
    /\ ex = [p \in Procs |-> ExInit]
    /\ bus = [p \in Procs |-> << >>]
    /\ deleg = [i \in Peers |-> DelegOff]
    /\ relay = RelayInit
    /\ out = << >> /\ outCall = << >> /\ wire = << >>
    /\ chat = ChatInit
    /\ mcpClient = McpInit
    /\ cancelLog = CancelInit

Operated(op, arg, returned, log) ==
    /\ Len(auditLogs.answers) < MaxAuditOps
    /\ auditLogs' = [log EXCEPT !.answers =
                        Append(@, [op |-> op, arg |-> arg, returned |-> returned])]
    /\ UNCHANGED <<topRole, existingTask, ex, bus, deleg, relay, out, outCall,
                   wire, chat, mcpClient, cancelLog>>

LogToolCall ==
    \E success \in BOOLEAN :
        LET output == IF success THEN [anomaliesFound |-> [prim |-> "3"]]
                      ELSE [error |-> Str("Provider not found")]
            log == logToolCall(auditLogs, "find_anomalies",
                               [limit |-> [prim |-> "10"]], output, 120, success)
        IN  Operated("logToolCall", success, log.logs[1], log)

GetRecentLogs ==
    \E limit \in Limits :
        Operated("getRecentLogs", limit, getRecentLogs(auditLogs, limit),
                 auditLogs)

ClearLogs == Operated("clearLogs", 0, "undefined", clearLogs(auditLogs))

NextAudit == LogToolCall \/ GetRecentLogs \/ ClearLogs

SpecAudit == InitAudit /\ [][NextAudit]_vars

\* ------------------------------------------------------------------ claims
IsTerminal(e) == e.type \in {"done", "error"}

Tagged(e, agent) == "agent" \in DOMAIN e /\ e.agent = agent

IsDetectionCompleted(e) ==
    e.type = "agent_active" /\ Tagged(e, "detection") /\ e.status = "completed"

TerminalsOf(events) == {k \in 1..Len(events) : IsTerminal(events[k])}

\* C1: in what sendToDetectionAgent yielded and the chat route wrote for a
\* request, there is never more than one terminal event (done or error),
\* there is exactly one once sendToDetectionAgent has returned, the terminal
\* event is the last event, and every agent_active{detection, completed}
\* comes before it.
C1_OneTerminalEventLast ==
    /\ Cardinality(TerminalsOf(out)) <= 1
    /\ relay.pc = "done" <=> TerminalsOf(out) # {}
    /\ \A k \in TerminalsOf(out) :
         /\ k = Len(out)
         /\ \A j \in 1..Len(out) : IsDetectionCompleted(out[j]) => j < k
    /\ Len(wire) = Len(out)
    /\ \A k \in 1..Len(wire) :
         wire[k].event \in {"done", "error"} <=> k \in TerminalsOf(out)

\* A request that went through a tool round and ended with done after
\* agent_active{detection, completed}.
C1_Witness ==
    /\ relay.pc = "done"
    /\ Last(out).type = "done"
    /\ ex[0].iterations >= 1
    /\ \E j \in 1..Len(out) : IsDetectionCompleted(out[j])

FinalsOf(updates) == {k \in 1..Len(updates) : updates[k].final}

\* C2: an executor has published a final status update exactly when execute
\* has returned, whichever way the loop was left; there is one such update,
\* it is the last update on the bus, and the update before it is
\* agent_active{this agent, completed}.
C2_CompletedThenFinal ==
    \A p \in Procs :
        /\ Cardinality(FinalsOf(bus[p])) <= 1
        /\ ex[p].pc = "done" <=> FinalsOf(bus[p]) # {}
        /\ \A k \in FinalsOf(bus[p]) :
             /\ k = Len(bus[p])
             /\ k > 1
             /\ bus[p][k - 1] =
                  StructuredUpdate(AgentActiveData(Role(p), "completed"), 0)

\* An executor that left the loop by a Reasoner error after a tool round.
C2_Witness ==
    \E p \in Procs :
        /\ ex[p].pc = "done"
        /\ ex[p].failed # ""
        /\ ex[p].iterations >= 1

\* C4: an executor runs at most MAX_ITERATIONS tool rounds and starts at most
\* MAX_ITERATIONS + 1 Reasoner round trips, also when the Reasoner requests a
\* tool in every reply; and the final update of an executor that has returned
\* carries a non-empty text.
C4_IterationBound ==
    \A p \in Procs :
        /\ ex[p].iterations <= MAX_ITERATIONS
        /\ ex[p].rt <= MAX_ITERATIONS + 1
        /\ ex[p].rt <= ex[p].iterations + 1
        /\ ex[p].pc = "done" =>
             /\ Last(bus[p]).final
             /\ Truthy(Last(bus[p]).text)

\* The Reasoner requested a tool in every reply and execute returned after
\* ten rounds and eleven round trips.
C4_Witness ==
    /\ ex[0].pc = "done"
    /\ ex[0].iterations = MAX_ITERATIONS
    /\ ex[0].rt = MAX_ITERATIONS + 1
    /\ ex[0].resp.toolCalls # << >>

\* The structured data of an update, or an empty record for plain text.
DataOf(update) ==
    IF "text" \in DOMAIN update /\ ParsesAsJSON(update.text)
    THEN JSONparse(update.text) ELSE Pick(update, {})

\* The positions in updates of the tool events with this status that the
\* agent published for the tool call.
ToolEventsOf(updates, agent, call, status) ==
    {k \in 1..Len(updates) :
        LET d == DataOf(updates[k])
        IN  /\ "type" \in DOMAIN d /\ d.type = "mcp_tool"
            /\ d.agent = agent /\ d.status = status
            /\ updates[k].call = call}

\* C5: on the bus of an executor, every tool call the executor started has
\* exactly one start event; a call still running has no end event, a call
\* that completed has exactly one, published after its start; and no end
\* event of the executor precedes the start of its call, whatever the order
\* in which the calls of a batch completed.
C5_StartBeforeOwnEnd ==
    \A p \in Procs :
        /\ \A c \in 1..ex[p].ncall :
             LET starts == ToolEventsOf(bus[p], Role(p), c, "start")
                 ends == ToolEventsOf(bus[p], Role(p), c, "end")
                 running == \E i \in 1..Len(ex[p].slots) :
                               /\ ex[p].slots[i].call = c
                               /\ ex[p].slots[i].st = "pending"
             IN  /\ Cardinality(starts) = 1
                 /\ Cardinality(ends) = IF running THEN 0 ELSE 1
                 /\ \A e \in ends : \A b \in starts : b < e
        /\ \A k \in 1..Len(bus[p]) :
             bus[p][k].call = 0 \/ bus[p][k].call \in 1..ex[p].ncall
        /\ ex[p].pc \in {"results", "done"} =>
             \A i \in 1..Len(ex[p].slots) : ex[p].slots[i].st = "ended"

\* Two calls of one batch, the one started second completed first.
C5_Witness ==
    /\ Len(ex[0].slots) = 2
    /\ \A i \in 1..2 : ex[0].slots[i].st = "ended"
    /\ \E e1 \in ToolEventsOf(bus[0], Role(0), ex[0].slots[1].call, "end") :
         \E e2 \in ToolEventsOf(bus[0], Role(0), ex[0].slots[2].call, "end") :
            e2 < e1

DelegationsIn(events) ==
    {k \in 1..Len(events) : events[k].type = "a2a_delegation"}

\* C6 as stated: no event tagged investigation precedes any Delegation event
\* of the relayed sequence.
C6_NoDelegateEventBeforeAnyDelegation ==
    \A k \in DelegationsIn(out) :
        \A j \in 1..(k - 1) : ~Tagged(out[j], "investigation")

\* C6 amended: no event tagged investigation precedes the first Delegation
\* event of the relayed sequence, and for every Delegation event no event
\* tagged investigation that belongs to the same delegation call precedes it.
C6_NoDelegateEventBeforeItsDelegation ==
    \A k \in DelegationsIn(out) :
        \A j \in 1..(k - 1) :
            Tagged(out[j], "investigation") =>
                /\ outCall[j] # outCall[k]
                /\ \E i \in DelegationsIn(out) : i < j

\* Two delegation calls were relayed, each followed by events of the
\* delegate.
C6_Witness ==
    /\ Cardinality(DelegationsIn(out)) = 2
    /\ \A k \in DelegationsIn(out) :
         \E j \in (k + 1)..Len(out) :
            Tagged(out[j], "investigation") /\ outCall[j] = outCall[k]

\* C7: every agent_active, mcp_tool or thinking event tagged investigation in
\* the relayed sequence, and every such frame written to the client, has a
\* Delegation{from detection, to investigation} before it.
C7_DelegateEventsFollowDelegation ==
    /\ \A k \in 1..Len(out) :
         out[k].type \in {"agent_active", "mcp_tool", "thinking"}
         /\ Tagged(out[k], "investigation")
         => \E j \in 1..(k - 1) :
               out[j] = [type |-> "a2a_delegation", from |-> "detection",
                         to |-> "investigation"]
    /\ \A k \in 1..Len(wire) :
         Tagged(wire[k].data, "investigation")
         => \E j \in 1..(k - 1) :
               /\ wire[j].event = "a2a_delegation"
               /\ wire[j].data = [from |-> "detection", to |-> "investigation"]

\* A tool event and a thinking event of the delegate were relayed.
C7_Witness ==
    /\ \E k \in 1..Len(wire) :
         wire[k].event = "mcp_tool" /\ Tagged(wire[k].data, "investigation")
    /\ \E k \in 1..Len(wire) :
         wire[k].event = "thinking" /\ Tagged(wire[k].data, "investigation")

\* C3 as stated: once handleSend has returned, the Chat client is not
\* loading, both agents are idle, no streaming text is left, and the last
\* message of the conversation is an assistant message: the finalized answer
\* or an error message.
C3_ClientSettled ==
    chat.pc = "finished" =>
        /\ ~chat.isLoading
        /\ \A a \in AgentIds : chat.agents[a].status = "idle"
        /\ chat.streamingContent = << >>
        /\ Last(chat.messages).role = "assistant"

\* C8 as stated: the end event of a tool call whose invocation threw carries
\* success = false and a duration, the call's entry fed to the Reasoner is
\* {error: message}, and the relayed request ends with done.
C8_ThrownCallEndsUnsuccessful ==
    \A p \in Procs : \A i \in 1..Len(ex[p].slots) :
        LET slot == ex[p].slots[i]
            fedResult == IF Role(p) = "detection" THEN slot.result.result
                         ELSE slot.result.response
        IN  slot.st = "ended" /\ slot.mcp = "throw" =>
              /\ fedResult = [error |-> "connect ECONNREFUSED"]
              /\ \A k \in ToolEventsOf(bus[p], Role(p), slot.call, "end") :
                   LET d == DataOf(bus[p][k])
                   IN  /\ d.success = FALSE
                       /\ d.duration \in Durations
              /\ p = 0 /\ relay.pc = "done" /\ ~relay.aborted
                 => Last(out).type = "done"

\* C9 as stated: when a Reasoner call of the executor that received the
\* request failed, its last update has state failed, and when the relay has
\* read that stream to its end, the last relayed event is the error event
\* with the message of the failure and no done event was relayed.
C9_ReasonerFailureEndsInError ==
    ex[0].failed # "" /\ ex[0].pc = "done" =>
        /\ Last(bus[0]).state = "failed"
        /\ relay.pc = "done" /\ ~relay.aborted =>
             /\ Last(out) = ErrorYield(ex[0].failed)
             /\ \A k \in 1..Len(out) : out[k].type # "done"

\* C10: a delegation whose peer was unreachable or whose stream broke off
\* returns "Error delegating to Investigation Agent: " followed by the
\* message; the delegating tool call ends as a successful call whose result
\* carries that string, and that result is the call's entry in what is fed
\* to the Reasoner once the batch is joined; and the relay, having read the
\* stream of the delegating executor to its end, relays done and no error
\* event.
C10_DelegationFailureIsAResult ==
    \A i \in Peers :
        deleg[i].err # "" =>
            /\ deleg[i].pc = "ret"
            /\ deleg[i].ret = Cat("Error delegating to Investigation Agent: ",
                                  Str(deleg[i].err))
            /\ i <= Len(ex[0].slots)
            /\ ex[0].slots[i].st = "ended" =>
                 /\ ex[0].slots[i].success
                 /\ ex[0].slots[i].result.result =
                        [investigation_report |-> deleg[i].ret]
                 /\ ex[0].pc = "results" =>
                      ex[0].fed[i] = ex[0].slots[i].result
            /\ relay.pc = "done" /\ ~relay.aborted =>
                 /\ Last(out).type = "done"
                 /\ \A k \in 1..Len(out) : out[k].type # "error"

\* A delegation broke off after the peer had published, its result was fed
\* to the Reasoner, and the request ended with done.
C10_Witness ==
    /\ \E i \in Peers : deleg[i].err # "" /\ deleg[i].pos > 0
                        /\ ex[0].slots[i].st = "ended"
    /\ ex[0].pc = "done"
    /\ ex[0].failed = ""
    /\ relay.pc = "done"
    /\ Last(out).type = "done"

\* The positions of the agent_active events of the delegate in a sequence
\* of event data.
DelegateStatusesIn(datas) ==
    {k \in 1..Len(datas) :
        /\ "type" \in DOMAIN datas[k] /\ datas[k].type = "agent_active"
        /\ datas[k].agent = "investigation"}

\* The latest agent_active status of the delegate is not working.
DelegateAtRest(datas) ==
    \A k \in DelegateStatusesIn(datas) :
        datas[k].status = "working" =>
            \E j \in DelegateStatusesIn(datas) : j > k /\ datas[j].status # "working"

BusData(p) == [k \in 1..Len(bus[p]) |-> DataOf(bus[p][k])]

\* C11: a delegation call has published agent_active working of the delegate
\* before it contacts the peer; when it has returned, after a normal end of
\* the peer's stream or after an error, the last event it published is
\* agent_active completed of the delegate; and once the delegating executor
\* has published its final update, and once the relay has relayed done, the
\* latest agent_active status of the delegate is not working.
C11_DelegateWorkingThenCompleted ==
    /\ \A i \in Peers :
         LET own == {k \in 1..Len(bus[0]) : bus[0][k].call = DelegCall(i)}
             data(k) == DataOf(bus[0][k])
         IN  /\ deleg[i].pc # "off" =>
                  \E k \in own : data(k) = AgentActiveData("investigation", "working")
             /\ deleg[i].pc = "ret" =>
                  \E k \in own :
                     /\ data(k) = AgentActiveData("investigation", "completed")
                     /\ \A j \in own : j > k => data(j).type = "mcp_tool"
                                               /\ data(j).agent = "detection"
                     /\ \E j \in own : j < k /\ data(j) =
                            AgentActiveData("investigation", "working")
    /\ ex[0].pc = "done" => DelegateAtRest(BusData(0))
    /\ relay.pc = "done" /\ ~relay.aborted => DelegateAtRest(out)

\* One delegation ended normally, a later one with an error, and the request
\* ended with done.
C11_Witness ==
    /\ relay.pc = "done" /\ ~relay.aborted
    /\ \E i \in Peers : deleg[i].err # ""
    /\ Cardinality({k \in DelegateStatusesIn(out) : out[k].status = "completed"}) >= 3

\* A Reasoner round trip of executor p is in flight.
InRoundTrip(p) == ex[p].pc \in {"send", "results"}

\* C12: while a Reasoner round trip of an executor is in flight, no tool call
\* of that executor is running, and the round trips started are one more than
\* the tool rounds started; while a batch is running no round trip is in
\* flight.  When sendToolResults has been started, every call of the batch
\* has published its end event, every delegation of the batch has returned,
\* after its peer finished or after an error, and the results fed are those
\* of the calls, in call order.
C12_RoundTripsSequentialBatchJoined ==
    \A p \in Procs :
        /\ InRoundTrip(p) =>
             /\ \A i \in 1..Len(ex[p].slots) : ex[p].slots[i].st = "ended"
             /\ ex[p].rt = ex[p].iterations + 1
        /\ ex[p].pc = "batch" =>
             /\ ex[p].rt = ex[p].iterations
             /\ \E i \in 1..Len(ex[p].slots) : ex[p].slots[i].st = "pending"
        /\ ex[p].pc = "results" =>
             /\ \A i \in 1..Len(ex[p].slots) :
                  /\ ToolEventsOf(bus[p], Role(p), ex[p].slots[i].call, "end") # {}
                  /\ IsDelegation(p, ex[p].slots[i].name) =>
                       /\ deleg[i].pc = "ret"
                       /\ deleg[i].err = "" => ex[i].pc = "done"
             /\ ex[p].fed = [i \in 1..Len(ex[p].slots) |-> ex[p].slots[i].result]

\* A batch of a plain call and a delegation: the plain call, started second,
\* has ended while the peer exchange of the delegation is under way.
C12_Witness ==
    /\ ex[0].pc = "batch"
    /\ Len(ex[0].slots) = 2
    /\ IsDelegation(0, ex[0].slots[1].name)
    /\ ex[0].slots[1].st = "pending"
    /\ ex[0].slots[2].st = "ended"
    /\ deleg[1].pc = "stream" /\ deleg[1].pos > 0

\* The same batch joined in the other order: the delegation ended first.
C12_WitnessOtherOrder ==
    /\ ex[0].pc = "batch"
    /\ Len(ex[0].slots) = 2
    /\ IsDelegation(0, ex[0].slots[1].name)
    /\ ex[0].slots[1].st = "ended"
    /\ ex[0].slots[2].st = "pending"

\* The positions of the events that sendToDetectionAgent yields of its own:
\* agent_active working of detection at the start, agent_active working of
\* the target after each delegation event, agent_active completed of
\* detection on the final update, and text, done and error.
RelayOwnYields ==
    {k \in 1..Len(out) :
        \/ k = 1
        \/ out[k].type \in {"text", "done", "error"}
        \/ k > 1 /\ out[k - 1].type = "a2a_delegation"
        \/ /\ StreamEnded(0, relay.pos)
           /\ IsDetectionCompleted(out[k])
           /\ \A j \in (k + 1)..Len(out) : out[j].type \in {"text", "done"}}

RECURSIVE Without(_, _, _)
Without(events, drop, k) ==
    IF k > Len(events) THEN << >>
    ELSE (IF k \in drop THEN << >> ELSE <<events[k]>>)
         \o Without(events, drop, k + 1)

IsStructured(data) == "type" \in DOMAIN data

\* C13: the frames written to the response are the frames of the events
\* yielded, one per event and in the same order, each with the event's type
\* as its name and the event's other fields as its data; and the events
\* yielded, without those the relay yields of its own, are the structured
\* events on the stream of the detection agent as far as the relay has read
\* it, in publication order.
C13_FramesInYieldOrder ==
    /\ Len(wire) = Len(out)
    /\ \A k \in 1..Len(out) :
         /\ wire[k].event = out[k].type
         /\ wire[k].data = Pick(out[k], DOMAIN out[k] \ {"type"})
    /\ Without(out, RelayOwnYields, 1) =
         SelectSeq(SubSeq(BusData(0), 1, relay.pos), IsStructured)

\* A request with a delegation was relayed to its end: tool, delegation,
\* delegate and thinking events, then text and done.
C13_Witness ==
    /\ relay.pc = "done" /\ ~relay.aborted
    /\ \E k \in 1..Len(wire) : wire[k].event = "a2a_delegation"
    /\ \E k \in 1..Len(wire) : wire[k].event = "thinking"
    /\ \E k \in 1..Len(wire) :
          wire[k].event = "mcp_tool" /\ wire[k].data.agent = "investigation"
    /\ wire[Len(wire) - 1].event = "text"

\* The state handleSend enters the read loop with.
ReadingStart ==
    [ChatInit EXCEPT !.pc = "reading", !.isLoading = TRUE,
                     !.messages = <<[role |-> "user",
                                     content |-> <<Str("question")>>]>>]

\* The payloads of the frames handled one after the other.
RECURSIVE DecodeFrames(_, _)
DecodeFrames(c, frames) ==
    IF frames = << >> THEN c
    ELSE DecodeFrames(HandleData(c, DataText(Head(frames))), Tail(frames))

\* The number of frames whose data line is complete in the first pos bytes.
CompleteFrames(frames, pos) ==
    Cardinality({k \in 1..Len(frames) :
                    Len(Bytes(SubSeq(frames, 1, k))) - 1 <= pos})

DecoderFields ==
    {"agents", "toolCalls", "delegations", "thoughts", "currentContent",
     "streamingContent", "messages"}

\* C14: in the read loop, whatever chunks the bytes read so far arrived in,
\* the decoder state (agent statuses, tool calls, delegations, thoughts,
\* accumulated text, messages) is the one obtained by handling, in order, the
\* payloads of the frames whose data line is complete in those bytes, and the
\* buffer holds the bytes after the last newline; so at the end of the body
\* the state depends on the frames only.
C14_ChunkingIndependent ==
    chat.pc = "reading" =>
        LET read == SubSeq(Bytes(wire), 1, chat.pos)
            done == SubSeq(wire, 1, CompleteFrames(wire, chat.pos))
        IN  /\ Pick(chat, DecoderFields) =
                 Pick(DecodeFrames(ReadingStart, done), DecoderFields)
            /\ chat.buffer = Last(Split(read))
            /\ chat.pos = Len(Bytes(wire)) => chat.buffer = << >>

\* A chunk ended inside the data line of the second or a later frame, after
\* a tool call was decoded.
C14_Witness ==
    /\ chat.pc = "reading"
    /\ Len(chat.buffer) = 1
    /\ chat.buffer[1].line.prefix = "data: "
    /\ CompleteFrames(wire, chat.pos) >= 2
    /\ chat.toolCalls # << >>

\* The field-presence rules in their order, and the variants they give.
RuleHolds(parsed) ==
    LET has(f) == f \in DOMAIN parsed
    IN  <<has("agent") /\ has("vendor") /\ has("status") /\ ~has("tool"),
          has("tool") /\ has("status"),
          has("from") /\ has("to"),
          has("agent") /\ has("text") /\ ~has("tool"),
          has("text") /\ ~has("agent"),
          has("taskId") \/ DOMAIN parsed = {},
          has("message")>>

RuleVariant ==
    <<"agent_active", "mcp_tool", "a2a_delegation", "thinking", "text", "done",
      "error">>

\* C15: the variant the decoder gives to the object of a frame is the variant
\* of the first rule, in the order 1 to 7, that the object satisfies, and none
\* when it satisfies no rule; and once the frame is decoded the state is the
\* one the branch of that variant leaves.
C15_FirstMatchingRuleWins ==
    \A k \in 1..Len(wire) :
        "data" \in DOMAIN wire[k] =>
            LET holds == RuleHolds(wire[k].data)
                variant == Classify(wire[k].data)
            IN  /\ (\A i \in 1..7 : ~holds[i]) => variant = "none"
                /\ \A i \in 1..7 :
                     holds[i] /\ (\A j \in 1..(i - 1) : ~holds[j])
                     => variant = RuleVariant[i]
                /\ Len(wire) = 1 /\ chat.pc = "reading"
                   /\ chat.pos = Len(Bytes(wire)) =>
                     /\ (variant = "agent_active") =
                          (chat.agents # DEFAULT_AGENTS)
                     /\ (variant = "a2a_delegation") = (chat.delegations # << >>)
                     /\ (variant = "thinking") = (chat.thoughts # << >>)
                     /\ (variant = "text") = (chat.currentContent # << >>)

\* An object that satisfies rule 1 and rule 4 was decoded as agent_active.
C15_Witness ==
    /\ Len(wire) = 1
    /\ "data" \in DOMAIN wire[1]
    /\ DOMAIN wire[1].data = {"agent", "vendor", "status", "text"}
    /\ chat.pc = "reading"
    /\ chat.pos = Len(Bytes(wire))
    /\ chat.agents["detection"].status = "working"
    /\ chat.thoughts = << >>

\* The last frame whose data line is complete is a done frame.
DoneDecoded ==
    /\ chat.pc = "reading"
    /\ CompleteFrames(wire, chat.pos) >= 1
    /\ LET frame == wire[CompleteFrames(wire, chat.pos)]
       IN  "data" \in DOMAIN frame /\ Classify(frame.data) = "done"

\* The decoder state before the last complete frame was handled.
BeforeLastFrame ==
    DecodeFrames(ReadingStart, SubSeq(wire, 1, CompleteFrames(wire, chat.pos) - 1))

\* C16 as stated: once a done payload is decoded, one message holding the
\* accumulated text has been added, the tool-call list and the thinking list
\* are empty, no delegation is active, and the agent statuses are those from
\* before.
C16_DoneFlushesAndClears ==
    DoneDecoded =>
        /\ chat.messages =
             Append(BeforeLastFrame.messages,
                    [role |-> "assistant",
                     content |-> BeforeLastFrame.currentContent])
        /\ chat.toolCalls = << >>
        /\ chat.thoughts = << >>
        /\ ActiveDelegation(chat) = << >>
        /\ chat.agents = BeforeLastFrame.agents

\* C16 amended: once a done payload is decoded, one message holding the
\* accumulated text has been added if that text is not empty, and none
\* otherwise; the tool-call list, the thinking list, the delegation list, the
\* active delegation, the agent statuses and the accumulated text are those
\* from before.
C16_DoneFlushesOnly ==
    DoneDecoded =>
        /\ chat.messages =
             IF TruthyContent(BeforeLastFrame.currentContent)
             THEN Append(BeforeLastFrame.messages,
                         [role |-> "assistant",
                          content |-> BeforeLastFrame.currentContent])
             ELSE BeforeLastFrame.messages
        /\ chat.toolCalls = BeforeLastFrame.toolCalls
        /\ chat.thoughts = BeforeLastFrame.thoughts
        /\ chat.delegations = BeforeLastFrame.delegations
        /\ ActiveDelegation(chat) = ActiveDelegation(BeforeLastFrame)
        /\ chat.agents = BeforeLastFrame.agents
        /\ chat.currentContent = BeforeLastFrame.currentContent

\* Done was decoded after a tool call and a text fragment: the message is
\* there and the tool call is still listed.
C16_Witness ==
    /\ DoneDecoded
    /\ Len(chat.messages) = 2
    /\ chat.toolCalls # << >>

\* The frame carries a text that is no JSON, a JSON value that is no
\* object, or an object that satisfies none of the classification rules.
IsNoise(frame) ==
    IF "raw" \in DOMAIN frame THEN TRUE
    ELSE Classify(frame.data) = "none"

\* C17 as stated: once a frame is decoded whose data is no valid JSON, no
\* object, or an object matching none of the rules, the decoder state is the
\* one from before the frame; the frames after it are decoded as usual,
\* which the composition over the complete frames expresses.
C17_NoiseIgnored ==
    chat.pc = "reading" /\ CompleteFrames(wire, chat.pos) >= 1
    /\ IsNoise(wire[CompleteFrames(wire, chat.pos)])
    => Pick(chat, DecoderFields) = Pick(BeforeLastFrame, DecoderFields)

\* The frames whose data line is complete.
FramesDecoded == SubSeq(wire, 1, CompleteFrames(wire, chat.pos))

IsTextFrame(frame) == "data" \in DOMAIN frame /\ Classify(frame.data) = "text"

IsToolFrame(frame, status) ==
    /\ "data" \in DOMAIN frame
    /\ Classify(frame.data) = "mcp_tool"
    /\ frame.data.status = status

\* The text fragments of the frames, in order.
FragmentsOf(frames) ==
    LET texts == SelectSeq(frames, IsTextFrame)
    IN  [k \in 1..Len(texts) |-> texts[k].data.text]

\* C18: once done is decoded after text fragments, the last message is the
\* assistant message whose content is the fragments decoded so far, in the
\* order received.  Once the frames decoded hold the start and then the end
\* of one tool call, and no other tool frame, the tool-call list holds one
\* record, with the status of the end event's success flag and with its
\* duration.
C18_FragmentsConcatenatedCallRecorded ==
    chat.pc = "reading" =>
        /\ DoneDecoded /\ TruthyContent(FragmentsOf(FramesDecoded)) =>
             Last(chat.messages) =
                [role |-> "assistant", content |-> FragmentsOf(FramesDecoded)]
        /\ LET starts == {k \in 1..Len(FramesDecoded) :
                            IsToolFrame(FramesDecoded[k], "start")}
               ends == {k \in 1..Len(FramesDecoded) :
                            IsToolFrame(FramesDecoded[k], "end")}
           IN  Cardinality(starts) = 1 /\ Cardinality(ends) = 1
               /\ (\A b \in starts : \A e \in ends : b < e)
               => \A e \in ends :
                    LET end == FramesDecoded[e].data
                    IN  chat.toolCalls =
                          <<[name |-> end.tool, agent |-> end.agent,
                             status |-> IF end.success THEN "success" ELSE "error",
                             duration |-> end.duration]>>

\* Scenario A decoded to its end: the message "3 anomalies" " found." and one
\* completed record with duration 120.
C18_Witness ==
    /\ wire = ScenarioA
    /\ chat.pc = "reading"
    /\ chat.pos = Len(Bytes(wire))
    /\ Last(chat.messages).content = <<Str("3 anomalies"), Str(" found.")>>
    /\ chat.toolCalls = <<[name |-> "find_anomalies", agent |-> "detection",
                           status |-> "success", duration |-> 120]>>

\* C19: when handleSend has finished, on whichever path (the body ended,
\* with or without a done frame or after an error frame, or fetch or
\* reader.read() threw), both agents are idle, whatever agent_active frames
\* were decoded; and decoding a done frame leaves the agent statuses as they
\* were before it.
C19_FinishedMeansIdle ==
    /\ chat.pc = "finished" =>
         \A a \in AgentIds : chat.agents[a].status = "idle"
    /\ DoneDecoded => chat.agents = BeforeLastFrame.agents

\* handleSend finished at the end of a body, without an exception, whose
\* frames left the detection agent working.
C19_Witness ==
    /\ chat.pc = "finished"
    /\ chat.pos = Len(Bytes(wire))
    /\ Len(chat.messages) = 1
    /\ DecodeFrames(ReadingStart, wire).agents["detection"].status = "working"
    /\ chat.agents["detection"].status = "idle"

\* A done frame was decoded while the detection agent was working, and the
\* agent is still working.
C19_WitnessDone ==
    /\ DoneDecoded
    /\ chat.agents["detection"].status = "working"

TextsIn(events) == {k \in 1..Len(events) : events[k].type = "text"}

\* C20 as stated: when the executor that received the request completed
\* without a failure, with final text T (the last text of the Reasoner, or
\* the fallback text), and the relay has read its stream to the end, the
\* relayed events hold exactly one text event, its text is T, it comes after
\* agent_active{detection, completed}, and done follows it immediately as the
\* last event; for every T.
C20_FinalTextRelayed ==
    /\ topRole = "detection"
    /\ ex[0].pc = "done" /\ ex[0].failed = ""
    /\ relay.pc = "done" /\ ~relay.aborted
    => LET T == Last(bus[0]).text
           n == Len(out)
       IN  /\ n >= 3
           /\ out[n].type = "done"
           /\ out[n - 1] = [type |-> "text", text |-> T]
           /\ TextsIn(out) = {n - 1}
           /\ \E j \in 1..(n - 2) : IsDetectionCompleted(out[j])

\* C21 as stated: while the loop over the peer's stream has not read the
\* update marked final, responseText is still empty, whatever plain text the
\* updates read so far carried; and when the stream ended normally, the value
\* returned is the text of the update marked final, for every such text.
C21_FinalTextReturned ==
    \A i \in Peers :
        /\ deleg[i].pc = "stream" /\ ~StreamEnded(i, deleg[i].pos) =>
             deleg[i].responseText = Str("")
        /\ deleg[i].pc = "ret" /\ deleg[i].err = "" =>
             deleg[i].ret = Last(bus[i]).text

\* The state of Spec from which SpecForward starts, before the peer has
\* published anything.
ForwardStartReached ==
    /\ topRole = "detection" /\ ~existingTask
    /\ ex[0] = [ExInit EXCEPT !.pc = "batch", !.resp = ForwardReply,
                              !.iterations = 1, !.slots = ForwardSlots,
                              !.rt = 1, !.ncall = 1]
    /\ ex[1] = ExInit /\ ex[2] = ExInit
    /\ bus = [p \in Procs |->
                IF p = 0
                THEN StartUpdates(0) \o CallStartUpdates("detection", DelegateTool, 1)
                ELSE << >>]
    /\ deleg = [i \in Peers |->
                  IF i = 1 THEN [DelegOff EXCEPT !.pc = "stream"] ELSE DelegOff]
    /\ relay = [RelayInit EXCEPT !.pc = "streaming", !.pos = Len(bus[0]),
                                 !.taskId = "task-1"]
    /\ out = <<[type |-> "agent_active", agent |-> "detection",
                vendor |-> "anthropic", status |-> "working"]>>
             \o Flatten([k \in 1..Len(bus[0]) |-> YieldsFor(bus[0][k])])
    /\ outCall = <<0>> \o Flatten([k \in 1..Len(bus[0]) |->
                     [j \in 1..Len(YieldsFor(bus[0][k])) |-> bus[0][k].call]])
    /\ wire = FramesFor(out)

\* The payloads of the structured events among the first pos updates.
RECURSIVE StructuredIn(_, _)
StructuredIn(updates, pos) ==
    IF pos = 0 THEN << >>
    ELSE StructuredIn(updates, pos - 1)
         \o (IF updates[pos].kind = "status-update"
                /\ "type" \in DOMAIN DataOf(updates[pos])
             THEN <<DataOf(updates[pos])>> ELSE << >>)

\* The payload with agent set to investigation and every other field kept.
AsInvestigation(d) ==
    [f \in DOMAIN d \cup {"agent"} |->
        IF f = "agent" THEN "investigation" ELSE d[f]]

\* The updates the delegation call of slot i published on the bus of the
\* delegating executor.
PublishedBy(i) ==
    LET IsOwn(u) == u.call = DelegCall(i)
    IN  SelectSeq(bus[0], IsOwn)

\* C22: what a delegation call has published between its three opening
\* events and its closing events (agent_active completed, the end event of the
\* call) is, in order, one event per structured event read from the peer's
\* stream:
\* a tool event with agent investigation and every other field as received,
\* whatever agent the peer's payload carried, and any other structured event
\* with all fields as received.
C22_ForwardedWithDelegateAgent ==
    \A i \in Peers :
        deleg[i].pc \in {"stream", "ret"} =>
            LET recv == StructuredIn(bus[i], deleg[i].pos)
                own == PublishedBy(i)
            IN  /\ Len(own) = 3 + Len(recv)
                              + (IF deleg[i].pc = "ret" THEN 1 ELSE 0)
                              + (IF ex[0].slots[i].st = "ended" THEN 1 ELSE 0)
                /\ \A k \in 1..Len(recv) :
                     DataOf(own[3 + k]) =
                        IF recv[k].type = "mcp_tool" THEN AsInvestigation(recv[k])
                        ELSE recv[k]

\* A tool event that the peer published with agent detection and one more
\* field was forwarded, and a thinking event with agent detection after it.
C22_Witness ==
    /\ deleg[1].pc = "stream"
    /\ deleg[1].pos = 2
    /\ DataOf(bus[1][1]) =
         [type |-> "mcp_tool", agent |-> "detection", tool |-> "explain_risk_score",
          status |-> "end", duration |-> 120, success |-> FALSE, note |-> "retried"]
    /\ DataOf(bus[1][2]) = [type |-> "thinking", agent |-> "detection",
                            text |-> Str("plan")]
    /\ DataOf(PublishedBy(1)[4]).agent = "investigation"
    /\ DataOf(PublishedBy(1)[5]).agent = "detection"

\* The order of the task states: submitted, working, then the terminal ones.
StateRank(state) ==
    CASE state = "submitted" -> 1
      [] state = "working" -> 2
      [] state \in {"completed", "failed", "canceled", "rejected"} -> 3

TerminalStatesOf(updates) ==
    {k \in 1..Len(updates) : StateRank(updates[k].state) = 3}

\* C23: on the bus of an executor the task states never go back: submitted
\* is the state of the first update only, and only when the task is new (then
\* the first update has it); working follows; one update at most has a
\* terminal state; that update is the one marked final, it is the last one,
\* and there is one exactly when execute has returned.
C23_StatesMonotonic ==
    \A p \in Procs :
        LET updates == bus[p]
            new == ~(p = 0 /\ existingTask)
        IN  /\ \A k \in 1..(Len(updates) - 1) :
                 StateRank(updates[k].state) <= StateRank(updates[k + 1].state)
            /\ \A k \in 1..Len(updates) :
                 updates[k].state = "submitted" <=> (k = 1 /\ new)
            /\ TerminalStatesOf(updates) = FinalsOf(updates)
            /\ Cardinality(FinalsOf(updates)) = IF ex[p].pc = "done" THEN 1 ELSE 0
            /\ FinalsOf(updates) \subseteq {Len(updates)}

\* A new task that went through submitted, working (with a tool call) and
\* its terminal state.
C23_Witness ==
    /\ ~existingTask
    /\ ex[0].pc = "done"
    /\ ex[0].iterations >= 1
    /\ bus[0][1].state = "submitted"
    /\ \E k \in 2..(Len(bus[0]) - 1) :
         /\ bus[0][k].state = "working"
         /\ bus[0][k].call > 0
    /\ Last(bus[0]).state = "completed"

\* The call failed: no connection, the request rejected, the server reported
\* an error, or the result has no content (no tools).
CallFailed(call) ==
    \/ call.connection \in ConnectMessages
    \/ "rejects" \in DOMAIN call.response
    \/ /\ "result" \in DOMAIN call.response
       /\ \/ "isError" \in DOMAIN call.response.result /\ call.response.result.isError
          \/ DOMAIN call.response.result \cap {"content", "tools"} = {}

IsString(v) == DOMAIN v \in {{"s"}, {"json"}, {"p", "t"}}

\* C24: callTool and listTools never raise.  callTool returns an object with
\* success and at most data and error; success is false exactly when the
\* call failed, and then the object carries error, a string, and no data;
\* when the call succeeded it carries no error.  listTools returns a list,
\* the empty list when it failed, and otherwise one entry with a name and a
\* description per tool listed.
C24_CallToolNeverRaises ==
    \A k \in 1..Len(mcpClient.ret) :
        LET call == mcpClient.ret[k]
            value == call.returned.value
        IN  /\ ~call.returned.thrown
            /\ call.op = "callTool" =>
                 /\ "success" \in DOMAIN value
                 /\ DOMAIN value \subseteq {"success", "data", "error"}
                 /\ ~value.success <=> CallFailed(call)
                 /\ CallFailed(call) =>
                      /\ DOMAIN value = {"success", "error"}
                      /\ IsString(value.error)
                 /\ ~CallFailed(call) => "error" \notin DOMAIN value
            /\ call.op = "listTools" =>
                 /\ CallFailed(call) => value = << >>
                 /\ ~CallFailed(call) =>
                      /\ Len(value) = Len(call.response.result.tools)
                      /\ \A j \in 1..Len(value) :
                           /\ DOMAIN value[j] = {"name", "description"}
                           /\ value[j].name = call.response.result.tools[j].name

\* A call that failed for a result without content, after a call that failed
\* to connect; and a listing that failed.
C24_Witness ==
    /\ Len(mcpClient.ret) = 2
    /\ mcpClient.ret[1].connection \in ConnectMessages
    /\ mcpClient.ret[2].op = "callTool"
    /\ mcpClient.ret[2].response = [result |-> [isError |-> TRUE]]
    /\ mcpClient.ret[2].returned.value =
         [success |-> FALSE, error |-> Str(TypeErrorMessage)]

\* C25: cancelTask never raises, whether the task is unknown (execute was
\* not called), running or ended; and every call of it, the first and any
\* repeated one, leaves the executor, its event bus and everything else but
\* the log as they were.
C25_CancelSilentIdempotent ==
    /\ [](\A p \in Procs : \A k \in 1..Len(cancelLog[p]) :
            ~cancelLog[p][k].returned.thrown)
    /\ [][cancelLog' # cancelLog =>
            UNCHANGED <<topRole, existingTask, ex, bus, deleg, relay, out,
                        outCall, wire, chat, mcpClient, auditLogs>>]_vars

\* cancelTask was called before execute and again after execute returned.
C25_Witness ==
    /\ Len(cancelLog[0]) = 2
    /\ cancelLog[0][1].pc = "idle"
    /\ cancelLog[0][2].pc = "done"

ErrorsIn(events) == {k \in 1..Len(events) : events[k].type = "error"}

\* C26 as stated: once the client has closed the connection, the relay
\* yields at most one error event and does not go on reading the stream of
\* the Detection Agent: its next step ends it; and what was written is a
\* prefix of the frames of the events yielded, each written once.
C26_StopsWhenClientGone ==
    /\ [](/\ Cardinality(ErrorsIn(out)) <= 1
          /\ Len(wire) <= Len(out)
          /\ wire = FramesFor(SubSeq(out, 1, Len(wire))))
    /\ [][relay.socket = "closed" /\ relay.pc = "streaming" /\ relay' # relay
            => relay'.pc = "done"]_vars

\* The call succeeded: the tool is known, the arguments are valid and the
\* handler returned a result with success.
CallSucceeded(call) ==
    /\ call.name \in ServerTools
    /\ call.args \in ValidArgs
    /\ ~call.outcome.thrown
    /\ call.outcome.value.success

\* C27 as stated: the audit log holds one entry per tool call the server
\* received, over MCP or over REST, whether the call succeeded, failed, had
\* invalid arguments or named an unknown tool; the entry of a call records
\* its tool name, its arguments, an output summary, a duration and whether
\* it succeeded.
C27_EveryCallLogged ==
    LET logs == auditLogs.logs
        calls == auditLogs.answers
    IN  /\ Len(logs) = Len(calls)
        /\ \A k \in 1..Len(calls) :
             LET entry == logs[Len(logs) + 1 - k]
             IN  /\ DOMAIN entry = {"id", "tool", "input", "outputSummary",
                                    "durationMs", "success"}
                 /\ entry.tool = calls[k].name
                 /\ entry.input = calls[k].args
                 /\ entry.success = CallSucceeded(calls[k])

\* C28: what a delegation call has published on the bus of the delegating
\* executor is, in this order: the start event of delegate_investigation,
\* the delegation event, agent_active working of the delegate, one event per
\* structured event read so far from the peer's stream (so each is published
\* when it is read, none is held back), then, once the call has returned,
\* agent_active completed of the delegate, and, once the call has ended, its
\* end event as the last one.
C28_DelegationBracketed ==
    \A i \in Peers :
        i <= Len(ex[0].slots) /\ IsDelegation(0, ex[0].slots[i].name) =>
            LET published == PublishedBy(i)
                own == [k \in 1..Len(published) |-> DataOf(published[k])]
                recv == IF deleg[i].pc = "off" THEN << >>
                        ELSE StructuredIn(bus[i], deleg[i].pos)
                n == Len(recv)
                returned == deleg[i].pc = "ret"
                ended == ex[0].slots[i].st = "ended"
            IN  /\ Len(own) = 3 + n + (IF returned THEN 1 ELSE 0)
                              + (IF ended THEN 1 ELSE 0)
                /\ own[1] = ToolStartData("detection", DelegateTool)
                /\ own[2] = DelegationData
                /\ own[3] = AgentActiveData("investigation", "working")
                /\ \A k \in 1..n :
                     own[3 + k] = IF recv[k].type = "mcp_tool"
                                  THEN AsInvestigation(recv[k]) ELSE recv[k]
                /\ returned =>
                     own[4 + n] = AgentActiveData("investigation", "completed")
                /\ ended =>
                     /\ returned
                     /\ own[5 + n].type = "mcp_tool"
                     /\ own[5 + n].tool = DelegateTool
                     /\ own[5 + n].status = "end"

\* A delegation call that forwarded a tool event of the peer and has ended.
C28_Witness ==
    /\ Len(ex[0].slots) >= 1
    /\ IsDelegation(0, ex[0].slots[1].name)
    /\ ex[0].slots[1].st = "ended"
    /\ deleg[1].err = ""
    /\ \E k \in 1..Len(PublishedBy(1)) :
         LET d == DataOf(PublishedBy(1)[k])
         IN  d.type = "mcp_tool" /\ d.tool = PlainTool("investigation")

\* The updates a step appends to the bus of executor p.
AppendedTo(p) ==
    IF Len(bus'[p]) >= Len(bus[p])
    THEN SubSeq(bus'[p], Len(bus[p]) + 1, Len(bus'[p]))
    ELSE << >>

\* The step publishes a thinking event of executor p itself.
EmitsThinking(p) ==
    \E k \in 1..Len(AppendedTo(p)) :
        LET d == DataOf(AppendedTo(p)[k])
        IN  /\ IsStructured(d)
            /\ d.type = "thinking"
            /\ d.agent = Role(p)

\* C29: a step in which an executor publishes a thinking event of its own
\* is the handling of a Reasoner reply that carries both narrative text and
\* at least one requested tool call.
C29_ThinkingOnlyWithTextAndCalls ==
    [][\A p \in Procs :
         EmitsThinking(p) =>
             /\ Truthy(ex'[p].resp.text)
             /\ ex'[p].resp.toolCalls # << >>]_vars

\* The same property of the detection executor alone.
C29_DetectionThinking ==
    [][EmitsThinking(0) /\ topRole = "detection" =>
             /\ Truthy(ex'[0].resp.text)
             /\ ex'[0].resp.toolCalls # << >>]_vars

\* The steps of execute at which a call is in flight: a Reasoner round
\* trip, or the tool and delegation calls of a batch.
InFlight == {"send", "batch", "results"}

\* C30 as stated: when cancelTask was called for a task while a Reasoner
\* round trip or a batch of tool calls was in flight, the task ends in state
\* failed or canceled, with exactly one terminal update on its bus.
C30_CancelEndsTask ==
    \A p \in Procs :
        (/\ \E k \in 1..Len(cancelLog[p]) : cancelLog[p][k].pc \in InFlight
         /\ ex[p].pc = "done") =>
            /\ Cardinality(TerminalStatesOf(bus[p])) = 1
            /\ \A k \in TerminalStatesOf(bus[p]) :
                 bus[p][k].state \in {"failed", "canceled"}

\* Part of C30 that does hold: a task cancelled in flight ends with exactly
\* one terminal update.
C30_OneTerminalUpdate ==
    \A p \in Procs :
        (/\ \E k \in 1..Len(cancelLog[p]) : cancelLog[p][k].pc \in InFlight
         /\ ex[p].pc = "done") =>
            Cardinality(TerminalStatesOf(bus[p])) = 1

\* The step is a call of the operation op of the audit log.
AuditStep(op) ==
    /\ Len(auditLogs'.answers) = Len(auditLogs.answers) + 1
    /\ Last(auditLogs'.answers).op = op

\* C31: the audit log holds at most 1000 entries, newest first (the ids
\* decrease from the first entry on); logToolCall puts the new entry first
\* and keeps the others in order, all of them when the log was not full and
\* all but the oldest one when it was; getRecentLogs(limit), for an integer
\* limit, returns the first min(max(1, limit), 200) entries, or all of them
\* when there are fewer, and leaves the log and its counter as they were;
\* clearLogs empties the log.
C31_AuditLogBounded ==
    /\ [](/\ Len(auditLogs.logs) <= MAX_LOG_ENTRIES
          /\ \A k \in 1..(Len(auditLogs.logs) - 1) :
               auditLogs.logs[k].id > auditLogs.logs[k + 1].id)
    /\ [][/\ AuditStep("logToolCall") =>
               LET n == Len(auditLogs.logs)
                   kept == IF n = MAX_LOG_ENTRIES THEN n - 1 ELSE n
               IN  /\ Len(auditLogs'.logs) = kept + 1
                   /\ auditLogs'.logs[1] = Last(auditLogs'.answers).returned
                   /\ auditLogs'.logs[1].id = auditLogs.logCounter + 1
                   /\ SubSeq(auditLogs'.logs, 2, kept + 1) =
                        SubSeq(auditLogs.logs, 1, kept)
          /\ AuditStep("getRecentLogs") =>
               LET limit == Last(auditLogs'.answers).arg
                   wanted == IF limit < 1 THEN 1
                             ELSE IF limit > 200 THEN 200 ELSE limit
                   n == Len(auditLogs.logs)
               IN  /\ auditLogs'.logs = auditLogs.logs
                   /\ auditLogs'.logCounter = auditLogs.logCounter
                   /\ Last(auditLogs'.answers).returned =
                        SubSeq(auditLogs.logs, 1,
                               IF wanted < n THEN wanted ELSE n)
          /\ AuditStep("clearLogs") => auditLogs'.logs = << >>]_vars

\* An entry was logged into a full log, and then getRecentLogs(1000)
\* returned 200 entries.
C31_Witness ==
    /\ Len(auditLogs.answers) >= 2
    /\ auditLogs.answers[1].op = "logToolCall"
    /\ auditLogs.answers[1].returned.id = MAX_LOG_ENTRIES + 1
    /\ auditLogs.answers[2].op = "getRecentLogs"
    /\ auditLogs.answers[2].arg = 1000
    /\ Len(auditLogs.answers[2].returned) = 200
    /\ Len(auditLogs.logs) = MAX_LOG_ENTRIES

\* C32 as stated: the end event of a tool call carries success = true only
\* if the invocation succeeded: callTool returned success = true for a
\* plain tool, and the delegation returned without its error string for
\* delegate_investigation.
C32_EndSuccessOnlyIfSucceeded ==
    \A p \in Procs : \A i \in 1..Len(ex[p].slots) :
        LET slot == ex[p].slots[i]
        IN  slot.st = "ended" =>
              \A k \in ToolEventsOf(bus[p], Role(p), slot.call, "end") :
                  DataOf(bus[p][k]).success =>
                      IF IsDelegation(p, slot.name) THEN deleg[i].err = ""
                      ELSE callTool(slot.mcp).success

\* The same for invocations that succeeded: their end event carries
\* success = true.
C32_SucceededEndsSuccessful ==
    \A p \in Procs : \A i \in 1..Len(ex[p].slots) :
        LET slot == ex[p].slots[i]
        IN  slot.st = "ended"
            /\ (IF IsDelegation(p, slot.name) THEN deleg[i].err = ""
                ELSE callTool(slot.mcp).success) =>
              \A k \in ToolEventsOf(bus[p], Role(p), slot.call, "end") :
                  DataOf(bus[p][k]).success

\* The text carries the tag of the iteration bound.
TaggedPartial(text) ==
    /\ "p" \in DOMAIN text
    /\ text.p = "Investigation reached maximum iterations (10). Partial results:\n\n"

\* C33 as stated: the final text of an investigation executor that returned
\* without an error carries the "reached maximum iterations" tag exactly
\* when its last Reasoner reply still requested tool calls.
C33_TaggedIffCutByBound ==
    \A p \in Procs :
        Role(p) = "investigation" /\ ex[p].pc = "done" /\ ex[p].failed = "" =>
            (TaggedPartial(Last(bus[p]).text) <=> ex[p].resp.toolCalls # << >>)

\* What does hold: the tag is there exactly when ten rounds were run; and
\* below ten rounds the last reply requested no tool call.
C33_TaggedIffTenRounds ==
    \A p \in Procs :
        Role(p) = "investigation" /\ ex[p].pc = "done" /\ ex[p].failed = "" =>
            /\ TaggedPartial(Last(bus[p]).text)
                 <=> ex[p].iterations = MAX_ITERATIONS
            /\ ex[p].iterations < MAX_ITERATIONS => ex[p].resp.toolCalls = << >>

\* The positions among the first n frames decoded of the tool frames with
\* this status for the tool and the agent of the payload d.
ToolFramesLike(d, status, n) ==
    {k \in 1..n :
        /\ IsToolFrame(FramesDecoded[k], status)
        /\ FramesDecoded[k].data.tool = d.tool
        /\ FramesDecoded[k].data.agent = d.agent}

\* What an end event says of its call.
EndValue(d) ==
    [status |-> IF d.success THEN "success" ELSE "error", duration |-> d.duration]

\* The records of the tool-call list for the tool and the agent of d.
RecordsLike(d) ==
    {k \in 1..Len(chat.toolCalls) :
        chat.toolCalls[k].name = d.tool /\ chat.toolCalls[k].agent = d.agent}

\* Of the calls of d's tool by d's agent, at most `most` run at any time in
\* the frames decoded, and no end comes without a running call.
RunningWithin(d, most) ==
    \A n \in 0..Len(FramesDecoded) :
        LET running == Cardinality(ToolFramesLike(d, "start", n))
                       - Cardinality(ToolFramesLike(d, "end", n))
        IN  running >= 0 /\ running <= most

\* Each end decoded ended one running record: as many records are running
\* as starts are not yet answered by an end, and for every end event as many
\* records carry its status and duration as there are end events like it.
EndsMatchRecords(d) ==
    LET n == Len(FramesDecoded)
        ends == ToolFramesLike(d, "end", n)
    IN  /\ Cardinality({k \in RecordsLike(d) :
                          chat.toolCalls[k].status = "running"})
             = Cardinality(ToolFramesLike(d, "start", n)) - Cardinality(ends)
        /\ \A e \in ends :
             LET v == EndValue(FramesDecoded[e].data)
             IN  Cardinality({k \in RecordsLike(d) :
                    Pick(chat.toolCalls[k], {"status", "duration"}) = v})
                 = Cardinality({f \in ends : EndValue(FramesDecoded[f].data) = v})

ToolPayloads ==
    {FramesDecoded[k].data : k \in ToolFramesLike(
        [tool |-> "find_anomalies", agent |-> "detection"], "start",
        Len(FramesDecoded))}

\* C34 as stated: in the read loop, for the calls of one tool by one agent,
\* of which two may run at once, each end event decoded ended exactly one
\* running record, and each ended record carries the duration and the
\* success of one end event.
C34_EachEndEndsOneRecord ==
    chat.pc = "reading" =>
        \A d \in ToolPayloads : RunningWithin(d, 2) => EndsMatchRecords(d)

\* The same when the calls of one tool by one agent run one at a time.
C34_OneAtATime ==
    chat.pc = "reading" =>
        \A d \in ToolPayloads : RunningWithin(d, 1) => EndsMatchRecords(d)

\* Two calls at once, both ended.
C34_TwoCallsEnded ==
    /\ chat.pc = "reading"
    /\ wire = ScenarioTwoCalls
    /\ Len(FramesDecoded) = 4

PendingAttempts ==
    {a \in 1..Len(mcpClient.attempts) : mcpClient.attempts[a] = "pending"}

\* C35 as stated: at most one connection attempt is in flight, and a client
\* that was connected, and not given up after a connection error of its
\* own, is the current mcpClient.
C35_OneAttemptNoLeak ==
    /\ Cardinality(PendingAttempts) <= 1
    /\ mcpClient.live \subseteq {mcpClient.mcpClient}

\* The same as long as at most one call has been reset after a connection
\* error of client.callTool.
C35_UpToOneReset ==
    mcpClient.resets <= 1 =>
        /\ Cardinality(PendingAttempts) <= 1
        /\ mcpClient.live \subseteq {mcpClient.mcpClient}

\* The positions before k of the agent_active events relayed for the agent.
ActiveBefore(agent, k) ==
    {j \in 1..(k - 1) : out[j].type = "agent_active" /\ out[j].agent = agent}

\* The event relayed at k is a tool or thinking event of an agent whose
\* last agent_active event relayed before it has status working.
RelayedWhileWorking(k) ==
    out[k].type \in {"mcp_tool", "thinking"} =>
        LET before == ActiveBefore(out[k].agent, k)
        IN  /\ before # {}
            /\ \A j \in before :
                 (\A i \in before : i <= j) => out[j].status = "working"

\* C36 as stated: every tool or thinking event is relayed while the last
\* agent_active event relayed for its agent has status working.
C36_EventsWhileWorking ==
    \A k \in 1..Len(out) : RelayedWhileWorking(k)

\* The same for requests with at most one delegation relayed.
C36_OneDelegation ==
    Cardinality({k \in 1..Len(out) : out[k].type = "a2a_delegation"}) <= 1 =>
        \A k \in 1..Len(out) : RelayedWhileWorking(k)

\* The status the client has decoded for the agent after the first k events
\* relayed: that of the last agent_active event for it, idle before any.
StatusAfter(agent, k) ==
    LET seen == {j \in 1..k : out[j].type = "agent_active" /\ out[j].agent = agent}
    IN  IF seen = {} THEN "idle"
        ELSE out[CHOOSE j \in seen : \A i \in seen : i <= j].status

\* C37: after no prefix of the events relayed is detection completed while
\* investigation is working; and where agent_active completed of detection
\* is relayed, every delegation relayed before it has been followed by the
\* agent_active completed of investigation that this delegation call
\* published.
C37_NoLiveInvestigationAfterCompletion ==
    \A k \in 1..Len(out) :
        /\ ~(/\ StatusAfter("detection", k) = "completed"
             /\ StatusAfter("investigation", k) = "working")
        /\ (out[k].type = "agent_active" /\ out[k].agent = "detection"
            /\ out[k].status = "completed") =>
              \A j \in 1..(k - 1) :
                  out[j].type = "a2a_delegation" =>
                      \E m \in (j + 1)..(k - 1) :
                          /\ outCall[m] = outCall[j]
                          /\ out[m].type = "agent_active"
                          /\ out[m].agent = "investigation"
                          /\ out[m].status = "completed"

\* A request with two delegations in one batch was relayed to its end.
C37_Witness ==
    /\ relay.pc = "done" /\ ~relay.aborted
    /\ StatusAfter("detection", Len(out)) = "completed"
    /\ \E j, k \in 1..Len(out) :
         /\ j < k
         /\ out[j].type = "a2a_delegation" /\ out[k].type = "a2a_delegation"
         /\ \A m \in j..k : ~(out[m].type = "agent_active"
                              /\ out[m].agent = "investigation"
                              /\ out[m].status = "completed")

\* The kind the Chat decoder takes the data line of a frame for.
KindDecoded(frame) ==
    IF ParsesAsJSON(DataText(frame)) THEN Classify(JSONparse(DataText(frame)))
    ELSE "none"

\* C38: what the chat route writes for an event of the relay, of any of its
\* seven kinds, the Chat decoder takes for an event of that kind.
C38_WireRoundTrip ==
    /\ Len(wire) = Len(out)
    /\ \A k \in 1..Len(out) :
         /\ out[k].type \in {"agent_active", "mcp_tool", "a2a_delegation",
                             "thinking", "text", "done", "error"}
         /\ wire[k].event = out[k].type
         /\ KindDecoded(wire[k]) = out[k].type

\* A done event without task id and an error event with an empty message
\* were written.
C38_Witness ==
    /\ Len(out) = 2
    /\ out[1] = [type |-> "done"]
    /\ out[2] = ErrorYield("")
    /\ KindDecoded(wire[1]) = "done"

\* Every kind of event is among those written.
C38_AllKinds ==
    {e.type : e \in RelayEvents} =
        {"agent_active", "mcp_tool", "a2a_delegation", "thinking", "text",
         "done", "error"}

====
